---- MODULE Spec2Model ----
(***************************************************************************)
(* Exam Buddy: the session / context lifecycle.                            *)
(*                                                                         *)
(* The state is the document store's exam_buddy_session collection, the    *)
(* clock, the ObjectId generator, the Streamlit st.session_state of one    *)
(* browser session and the engine's in-process _session_store.  Every      *)
(* action is one function of auth.py, db_utils.py, app.py or exam_buddy.py.*)
(*                                                                         *)
(* Identifiers (student ids, session ids, document _ids) are strings in    *)
(* the program; here they are numbers:                                     *)
(*    0        None / the empty string (falsy)                             *)
(*    1..90    strings that are valid ObjectIds (24 hex digits)            *)
(*    91..     strings that are not (a uuid, free text)                    *)
(* A value stored in a document keeps its BSON type: the student link is   *)
(* an ObjectId when login, save_message or handle_logout write it and a    *)
(* string when ensure_session_exists writes it, and the store never        *)
(* equates the two.                                                        *)
(* The collection carries the indexes both modules create on it: auth.py   *)
(* (imported first by app.py) drops all indexes and creates the TTL index  *)
(* and the sparse unique index on student_id; db_utils.py, imported on     *)
(* first use, adds the unique index on session_id.                         *)
(* Time is counted in days; the clock advances in steps of half the        *)
(* session lifetime, so that a session can be touched before it expires.   *)
(* Two fields that are written and never read are left out: a message's    *)
(* timestamp and a document's last_updated.  A document without a          *)
(* conversation or context field reads as [] or "" at every place that     *)
(* reads it (dict.get with that default), and is modelled so.              *)
(***************************************************************************)
EXTENDS Integers, Sequences, FiniteSets, TLC

VARIABLES
    sessions,       \* exam_buddy_session: document _id -> document
    now,            \* datetime.utcnow(), in days
    nextOid,        \* the next ObjectId() the process generates
    ui,             \* st.session_state of the browser session
    session_store,  \* exam_buddy._session_store: session id -> message list
    ret,            \* the last call: its name, the student id it was given,
                    \* whether it returned a value (a document, True)
    saved,          \* the last context summary handle_logout stored, for
                    \* whom and in which document
    user_info,      \* st.session_state.user_info, the profile being collected
    messages,       \* st.session_state.messages, the chat the page shows
    students,       \* student_marks: student _id -> the record's marks
    llm_calls,      \* invocations of the chain's model (llm.invoke) so far
    llm_io,         \* the last invocation of the chain's model: the recap of
                    \* stored messages in its context, and the text it gave
    alerts,         \* what st.error and st.warning showed in the last run
                    \* of the page, in order
    outcome,        \* how the last call that may meet a failure ended:
                    \* what failed in it, whether it raised, what it returned
    threads,        \* the calls in flight when two requests interleave:
                    \* where each one is and its local variables
    objects         \* the ChatMessageHistory objects two interleaved
                    \* requests create: object -> message list

\* what only the fault and interleaving specifications change
auxVars == <<llm_io, alerts, outcome, threads, objects>>

vars == <<sessions, now, nextOid, ui, session_store, ret, saved,
          user_info, messages, students, llm_calls, auxVars>>

\* what the session lifecycle's functions never touch
pageVars == <<user_info, messages, students, llm_calls, auxVars>>

----------------------------------------------------------------------------
(* Bounds of the model *)

MaxTicks == 2       \* steps the clock takes
MaxDocs == 2        \* documents ever inserted
MaxConv == 1        \* messages a conversation grows to under Spec
MaxAppends == 82    \* messages appended under SpecFifo
MaxCalls == 2       \* invocations of the chain's model
MaxTyped == 4       \* inputs typed into one profile collection
MaxInvalid == 2     \* answers the profile flow rejects under SpecFlow
MaxTurns == 2       \* questions a stored conversation grows to under SpecAsk
MaxAsked == 1       \* the same under SpecChat
MaxExams == 2       \* exam names typed under SpecExam
MaxFaultTurns == 1  \* questions stored per session under SpecFault
MaxReruns == 3      \* inputs typed under SpecRerun

(* Program constants *)

SESSION_TTL_DAYS == 7       \* timedelta(days=7)
max_length == 1000          \* filter_user_input truncates longer inputs
MAX_MESSAGES == 80          \* save_message keeps the last 80 messages

NoId == 0                   \* None
Absent == -1                \* a timestamp field the document does not have
FirstOid == 11              \* the first ObjectId the generator hands out
GenOffset == 40             \* see GeneratedSid

----------------------------------------------------------------------------
(* Values *)

StudentIds == {1}                   \* the _ids of student_marks
StudentInputs == {0, 1, 3, 91}      \* typed into the login form: empty, a
                                    \* student, a valid id of no student, a
                                    \* malformed id
ExternalIds == {91}                 \* a session id a caller makes up
Roles == {"user", "assistant"}
Contents == {1}                     \* message texts under Spec
\* what a student asks once the profile is complete
Questions == {"explain time management", "how to hack the exam", "what did I just ask"}
\* a question the guardrails pass, one they reject
FaultQuestions == {"explain time management", "how to hack the exam"}
\* what the chain's model does when invoked: it answers, or the call raises
ModelReplies == {[raised |-> FALSE, text |-> "Plan your week."],
                 [raised |-> TRUE, text |-> ""]}
\* what get_llm_summary returns: the model's text, or its fixed fallback
Summaries == {"summary A",
              "Previous conversation history is available but could not be summarized."}

\* bson.ObjectId.is_valid on a string
ObjectIdIsValid(x) == x \in 1..90

\* the BSON value of a document's student_id field
MissingRef == [tag |-> "missing", val |-> 0]
NullRef == [tag |-> "null", val |-> 0]
OidRef(s) == [tag |-> "oid", val |-> s]      \* ObjectId(s)
StrRef(s) == [tag |-> "str", val |-> s]      \* the string s

Message(role, content) == [role |-> role, content |-> content]

\* ObjectId() never repeats and never equals a string a caller already
\* holds.  The ObjectId a document gets as _id is the counter nextOid; the
\* one str(ObjectId()) generates for the session_id of document d is this.
GeneratedSid(d) == d + GenOffset

\* s[-n:]
LastN(s, n) == IF Len(s) <= n THEN s ELSE SubSeq(s, Len(s) - n + 1, Len(s))

Ids == DOMAIN sessions

\* identifiers that exist somewhere in the system, plus the made-up ones
KnownIds ==
    ExternalIds \cup Ids \cup ({sessions[d].session_id : d \in Ids} \ {NoId})
                \cup ({ui.session_id} \ {NoId}) \cup DOMAIN session_store

----------------------------------------------------------------------------
(* Text: Python's str operations on the strings the page handles           *)

Uppers == "ABCDEFGHIJKLMNOPQRSTUVWXYZ"
Lowers == "abcdefghijklmnopqrstuvwxyz"
Digits == "0123456789"

\* s[i], a string of one character
CharAt(s, i) == SubSeq(s, i, i)

\* s[i:], the rest of s from its i-th character on
From(s, i) == SubSeq(s, i, Len(s))

\* the positions of the character c in the alphabet
IndexIn(alphabet, c) == {i \in 1..Len(alphabet) : CharAt(alphabet, i) = c}

\* the character c carried from one alphabet to the other, or c itself
Mapped(from, to, c) ==
    IF IndexIn(from, c) = {} THEN c
    ELSE CharAt(to, CHOOSE i \in IndexIn(from, c) : TRUE)

RECURSIVE MapFrom(_, _, _, _)
MapFrom(from, to, s, i) ==
    IF i > Len(s) THEN ""
    ELSE Mapped(from, to, CharAt(s, i)) \o MapFrom(from, to, s, i + 1)

\* str.lower, str.upper
StrLower(s) == MapFrom(Uppers, Lowers, s, 1)
StrUpper(s) == MapFrom(Lowers, Uppers, s, 1)

\* str.capitalize: the first character upper case, the rest lower case
Capitalize(s) ==
    IF s = "" THEN ""
    ELSE Mapped(Lowers, Uppers, CharAt(s, 1)) \o StrLower(From(s, 2))

\* sub in s
Contains(sub, s) ==
    \E a \in {sub}, b \in {s} :
        \/ a = ""
        \/ \E i \in 1..(Len(b) - Len(a) + 1) : SubSeq(b, i, i + Len(a) - 1) = a

\* what \s matches and str.strip removes, among the characters typed
Whitespace == {" ", "\t", "\n"}

\* str.strip
RECURSIVE LStrip(_)
LStrip(s) == IF s # "" /\ CharAt(s, 1) \in Whitespace THEN LStrip(From(s, 2)) ELSE s

RECURSIVE RStrip(_)
RStrip(s) ==
    IF s # "" /\ CharAt(s, Len(s)) \in Whitespace
    THEN RStrip(SubSeq(s, 1, Len(s) - 1))
    ELSE s

Strip(s) == RStrip(LStrip(s))

\* s.split(","): the pieces between the commas, empty ones included
RECURSIVE SplitFrom(_, _, _)
SplitFrom(s, start, i) ==
    IF i > Len(s) THEN <<SubSeq(s, start, Len(s))>>
    ELSE IF CharAt(s, i) = "," THEN <<SubSeq(s, start, i - 1)>> \o SplitFrom(s, i + 1, i + 1)
    ELSE SplitFrom(s, start, i + 1)

SplitCommas(s) == SplitFrom(s, 1, 1)

\* ", ".join(parts)
RECURSIVE JoinComma(_)
JoinComma(parts) ==
    IF parts = << >> THEN ""
    ELSE IF Len(parts) = 1 THEN parts[1]
    ELSE parts[1] \o ", " \o JoinComma(Tail(parts))

Range(f) == {f[i] : i \in DOMAIN f}

----------------------------------------------------------------------------
(* The store *)

\* the unique index on session_id (not sparse: a missing field counts as
\* null) and the sparse unique index on student_id (a missing field is not
\* indexed, a null is)
UniqueOk(S) ==
    \A d1, d2 \in DOMAIN S :
        d1 # d2 =>
            /\ S[d1].session_id # S[d2].session_id
            /\ S[d1].student_id.tag # "missing" => S[d1].student_id # S[d2].student_id

Insert(S, id, doc) == [d \in DOMAIN S \cup {id} |-> IF d = id THEN doc ELSE S[d]]

Remove(S, id) == [d \in DOMAIN S \ {id} |-> S[d]]

\* a document with none of the optional fields
BareDoc ==
    [session_id |-> NoId, student_id |-> MissingRef, created_at |-> Absent,
     last_activity |-> Absent, expires_at |-> Absent,
     conversation |-> << >>, context |-> ""]

\* what the variable ret keeps of a call
Called(op, student_id, ok) == [op |-> op, arg |-> student_id, ok |-> ok]

NoSaved == [id |-> NoId, student_id |-> NoId, context |-> ""]

InitialUiAuthenticated ==
    [session_id |-> NoId, student_id |-> NoId, is_authenticated |-> TRUE]

InitialUi == [session_id |-> NoId, student_id |-> NoId, is_authenticated |-> FALSE]

\* initialize_session_state: the user_info of a fresh page.  A key the dict
\* does not have yet reads as the default its readers give it: "" for
\* exam_category, an empty dict or list, False for the awaiting flags, and
\* Absent for current_subject_index.
EmptyUserInfo ==
    [exam_type |-> "", exam_category |-> "", subjects |-> << >>,
     context_provided |-> FALSE, profile_complete |-> FALSE,
     subject_marks |-> << >>, awaiting_subjects |-> FALSE,
     pending_subjects |-> << >>, current_subject_index |-> Absent,
     awaiting_marks |-> FALSE]

\* the marks the student record holds before the student logs in; a mark is
\* a float, kept as a decimal fraction
PriorMarks == <<[subject |-> "physics", marks |-> [num |-> 50, den |-> 1]]>>

\* the model has not been invoked
NoInvocation == [invoked |-> FALSE, recap |-> << >>, raised |-> FALSE, text |-> ""]

\* no call has been made under faults
NoOutcome ==
    [op |-> "init", fault |-> {}, raised |-> FALSE, value |-> "None",
     student |-> NoId]

\* a call op, in which the calls named in fault raised, ended by raising or
\* by returning value
Ended(op, fault, raised, value) ==
    [op |-> op, fault |-> fault, raised |-> raised, value |-> value,
     student |-> NoId]

\* the two requests that interleave, and one that has not started
Threads == {1, 2}
Idle == [pc |-> "idle"]

Init ==
    /\ sessions = << >>
    /\ now = 0
    /\ nextOid = FirstOid
    /\ ui = InitialUi
    /\ session_store = << >>
    /\ ret = Called("init", NoId, FALSE)
    /\ saved = NoSaved
    /\ user_info = EmptyUserInfo
    /\ messages = << >>
    /\ students = [s \in StudentIds |-> PriorMarks]
    /\ llm_calls = 0
    /\ llm_io = NoInvocation
    /\ alerts = << >>
    /\ outcome = NoOutcome
    /\ threads = [t \in Threads |-> Idle]
    /\ objects = << >>

DocsLeft == FirstOid + MaxDocs - nextOid

\* MongoDBManager.get_conversation_history(session_id): the conversation of
\* the document with that session_id, [] when there is none
ConversationHistory(S, session_id) ==
    LET hit == {d \in DOMAIN S : S[d].session_id = session_id} IN
    IF hit = {} THEN << >>
    ELSE S[CHOOSE d \in hit : TRUE].conversation

----------------------------------------------------------------------------
(* auth.login *)

StudentFoundAnyone(student_id) == TRUE

\* students.find_one({"_id": ObjectId(student_id)})
StudentFound(student_id) == student_id \in StudentIds

\* sessions.find_one({"student_id": ObjectId(student_id)}, sort=...): the
\* sparse unique index leaves at most one
ExistingSession(S, student_id) ==
    {d \in DOMAIN S : S[d].student_id = OidRef(student_id)}

StoredContextDropped(doc) == ""

\* existing_session.get("context", "")
StoredContext(doc) == doc.context

\* what login returns when it returns None
LoginNone(S) ==
    [sessions |-> S, inserted |-> 0, ok |-> FALSE, id |-> NoId,
     session_id |-> NoId, conversation |-> << >>, context |-> ""]

\* the outcome of login(student_id, current_session_id) on the collection S
\* when the next ObjectId is oid: the collection afterwards, whether a
\* document was inserted, and the returned _id, session_id, conversation and
\* context
LoginOutcome(S, oid, student_id, current_session_id) ==
    IF student_id = NoId \/ ~ObjectIdIsValid(student_id) THEN LoginNone(S)
    ELSE IF ~StudentFound(student_id) THEN LoginNone(S)
    ELSE IF ExistingSession(S, student_id) # {} THEN
        LET e == CHOOSE d \in ExistingSession(S, student_id) : TRUE
            sid == IF current_session_id # NoId THEN current_session_id
                   ELSE IF S[e].session_id # NoId THEN S[e].session_id
                   ELSE GeneratedSid(e)
            S2 == [S EXCEPT ![e].session_id = sid,
                            ![e].last_activity = now,
                            ![e].expires_at = now + SESSION_TTL_DAYS]
        IN
        IF ~UniqueOk(S2) THEN LoginNone(S)      \* DuplicateKeyError, caught
        ELSE [sessions |-> S2, inserted |-> 0, ok |-> TRUE, id |-> e,
              session_id |-> sid, conversation |-> S[e].conversation,
              context |-> StoredContext(S[e])]
    ELSE
        LET sid == IF current_session_id # NoId THEN current_session_id
                   ELSE GeneratedSid(oid)
            doc == [BareDoc EXCEPT !.session_id = sid,
                                   !.student_id = OidRef(student_id),
                                   !.created_at = now,
                                   !.last_activity = now,
                                   !.expires_at = now + SESSION_TTL_DAYS]
            S2 == Insert(S, oid, doc)
        IN
        IF ~UniqueOk(S2) THEN LoginNone(S)      \* DuplicateKeyError, caught
        ELSE [sessions |-> S2, inserted |-> 1, ok |-> TRUE, id |-> oid,
              session_id |-> sid, conversation |-> << >>, context |-> ""]

login(student_id, current_session_id) ==
    LET r == LoginOutcome(sessions, nextOid, student_id, current_session_id) IN
    /\ r.inserted <= DocsLeft
    /\ sessions' = r.sessions
    /\ nextOid' = nextOid + r.inserted
    /\ ret' = Called("login", student_id, r.ok)
    /\ UNCHANGED <<now, ui, session_store, saved>>
    /\ UNCHANGED pageVars

\* the text of the error the store's driver raises, str(e)
StoreError == "ServerSelectionTimeoutError: No servers found yet"

EnterValidId == "Please enter a valid Student ID"
InvalidStudentId == "Invalid Student ID. Please try again."

\* what show_login shows when loading the history raised the error e
HistoryLoadError(e) == "Error loading conversation history: " \o e

\* what main() shows when its load of the conversation raised
HistoryLoadFailed == "Error loading conversation history. Please refresh the page."

\* what st.error shows on every run of main() for an authenticated user: the
\* load of the conversation calls db_manager.get_conversation, which raises,
\* so conversation_loaded is never set and the load is tried on every run
PageAlerts == <<HistoryLoadFailed>>

\* app.show_login, the form submitted with student_id; an empty input only
\* warns.  The page keeps str(session['_id']) as its session id.  Its
\* current session id is None whenever the form is shown.  The history it
\* then loads is get_conversation_history(student_id), a lookup of the
\* student id among the session ids, which finds nothing to load.  The load
\* first imports db_utils, whose module body connects to the store
\* (db_manager = MongoDBManager()): import_fails is that connection raising,
\* which show_login reports with the error's text before main() runs again.
show_login_under(student_id, import_fails) ==
    LET r == LoginOutcome(sessions, nextOid, student_id, ui.session_id)
        history == IF import_fails THEN << >>
                   ELSE ConversationHistory(r.sessions, student_id)
    IN
    /\ ~ui.is_authenticated
    /\ IF student_id = NoId
       THEN /\ ret' = Called("show_login", student_id, FALSE)
            /\ alerts' = <<EnterValidId>>
            /\ UNCHANGED <<sessions, nextOid, ui, messages>>
       ELSE /\ r.inserted <= DocsLeft
            /\ sessions' = r.sessions
            /\ nextOid' = nextOid + r.inserted
            /\ ret' = Called("show_login", student_id, r.ok)
            /\ ui' = IF r.ok
                     THEN [session_id |-> r.id, student_id |-> student_id,
                           is_authenticated |-> TRUE]
                     ELSE ui
            /\ messages' = IF r.ok /\ history # << >> THEN history ELSE messages
            /\ alerts' = IF ~r.ok THEN <<InvalidStudentId>>
                         ELSE IF import_fails
                         THEN <<HistoryLoadError(StoreError)>> \o PageAlerts
                         ELSE PageAlerts
    /\ UNCHANGED <<now, session_store, saved, user_info, students, llm_calls>>
    /\ UNCHANGED <<llm_io, outcome, threads, objects>>

\* show_login when the store is reachable
show_login(student_id) == show_login_under(student_id, FALSE)

----------------------------------------------------------------------------
(* The clock and the store's TTL monitor *)

ClockStep == (SESSION_TTL_DAYS + 1) \div 2

Tick ==
    /\ now < MaxTicks * ClockStep
    /\ now' = now + ClockStep
    /\ ret' = Called("tick", NoId, FALSE)
    /\ UNCHANGED <<sessions, nextOid, ui, session_store, saved>>
    /\ UNCHANGED pageVars

\* the TTL index on expires_at, expireAfterSeconds = 0
Expired(doc) == doc.expires_at # Absent /\ doc.expires_at <= now

TtlMonitor ==
    \E d \in Ids :
        /\ Expired(sessions[d])
        /\ sessions' = Remove(sessions, d)
        /\ ret' = Called("ttl", NoId, FALSE)
        /\ UNCHANGED <<now, nextOid, ui, session_store, saved>>
        /\ UNCHANGED pageVars

----------------------------------------------------------------------------
(* auth.get_session, auth.ensure_session_exists, auth.logout *)

\* the documents get_session's filter selects: _id = ObjectId(session_id), or
\* session_id = ObjectId(session_id), which no document satisfies because
\* every writer stores session_id as a string; and expires_at > now
LiveById(S, session_id) ==
    {d \in DOMAIN S : /\ d = session_id
                      /\ S[d].expires_at # Absent
                      /\ S[d].expires_at > now}

\* the outcome of get_session(session_id) on the collection S
GetSessionOutcome(S, session_id) ==
    LET none == [sessions |-> S, ok |-> FALSE, id |-> NoId, context |-> ""] IN
    IF session_id = NoId \/ ~ObjectIdIsValid(session_id) THEN none
    ELSE IF LiveById(S, session_id) = {} THEN none
    ELSE LET d == CHOOSE x \in LiveById(S, session_id) : TRUE IN
         [sessions |-> [S EXCEPT ![d].last_activity = now],
          ok |-> TRUE, id |-> d, context |-> S[d].context]

get_session(session_id) ==
    LET r == GetSessionOutcome(sessions, session_id) IN
    /\ sessions' = r.sessions
    /\ ret' = Called("get_session", NoId, r.ok)
    /\ UNCHANGED <<now, nextOid, ui, session_store, saved>>
    /\ UNCHANGED pageVars

\* {"$or": [{"session_id": session_id}, {"_id": ObjectId(session_id) if valid else None}]}
BySessionIdOrId(S, session_id) ==
    {d \in DOMAIN S : \/ S[d].session_id = session_id
                      \/ (ObjectIdIsValid(session_id) /\ d = session_id)}

EnsureFoundNever(S, session_id) == {}

\* ensure_session_exists' check that the session exists
EnsureFound(S, session_id) == BySessionIdOrId(S, session_id)

\* the document ensure_session_exists inserts
EnsureDoc(session_id, student_id) ==
    [BareDoc EXCEPT !.session_id = session_id,
                    !.created_at = now,
                    !.last_activity = now,
                    !.expires_at = now + SESSION_TTL_DAYS,
                    !.student_id = IF student_id # NoId THEN StrRef(student_id)
                                   ELSE MissingRef]

\* the outcome of ensure_session_exists(session_id, student_id) on the
\* collection S when the next ObjectId is oid
EnsureOutcome(S, oid, session_id, student_id) ==
    LET S2 == Insert(S, oid, EnsureDoc(session_id, student_id)) IN
    IF EnsureFound(S, session_id) # {}
    THEN [sessions |-> S, inserted |-> 0, ok |-> TRUE]
    ELSE IF UniqueOk(S2) THEN [sessions |-> S2, inserted |-> 1, ok |-> TRUE]
    ELSE [sessions |-> S, inserted |-> 0, ok |-> FALSE]   \* DuplicateKeyError, caught

ensure_session_exists(session_id, student_id) ==
    LET r == EnsureOutcome(sessions, nextOid, session_id, student_id) IN
    /\ r.inserted <= DocsLeft
    /\ sessions' = r.sessions
    /\ nextOid' = nextOid + r.inserted
    /\ ret' = Called("ensure_session_exists", student_id, r.ok)
    /\ UNCHANGED <<now, ui, session_store, saved>>
    /\ UNCHANGED pageVars

\* update_one changes the first document its filter selects; the result is
\* modified_count > 0, which is 0 when the write changes nothing
logout(session_id) ==
    /\ \/ /\ (session_id = NoId \/ BySessionIdOrId(sessions, session_id) = {})
          /\ ret' = Called("logout", NoId, FALSE)
          /\ UNCHANGED sessions
       \/ /\ session_id # NoId
          /\ \E d \in BySessionIdOrId(sessions, session_id) :
                /\ sessions' = [sessions EXCEPT ![d].last_activity = now]
                /\ ret' = Called("logout", NoId, sessions[d].last_activity # now)
    /\ UNCHANGED <<now, nextOid, ui, session_store, saved>>
    /\ UNCHANGED pageVars

----------------------------------------------------------------------------
(* db_utils.MongoDBManager *)

BySessionId(S, session_id) == {d \in DOMAIN S : S[d].session_id = session_id}

\* MongoDBManager.get_session: the class defines it twice and the second
\* definition, a plain find_one({"session_id": session_id}), is the one in
\* effect: the documents it can return
DbGetSessionFound(S, session_id) == BySessionId(S, session_id)

db_get_session(session_id) ==
    /\ ret' = Called("db_get_session", NoId, DbGetSessionFound(sessions, session_id) # {})
    /\ UNCHANGED <<sessions, now, nextOid, ui, session_store, saved>>
    /\ UNCHANGED pageVars

\* the context of saved is overwritten when document d gets context
Overwritten(d, context) ==
    IF saved.id = d /\ saved.context # context THEN NoSaved ELSE saved

\* update_session(session_id, {"context": context}): last_activity is added
\* to the $set, and the update is an upsert
update_session(session_id, context) ==
    /\ \/ \E d \in BySessionId(sessions, session_id) :
             /\ sessions' = [sessions EXCEPT ![d].context = context,
                                             ![d].last_activity = now]
             /\ ret' = Called("update_session", NoId, sessions'[d] # sessions[d])
             /\ saved' = Overwritten(d, context)
             /\ UNCHANGED nextOid
       \/ /\ BySessionId(sessions, session_id) = {}
          /\ DocsLeft >= 1
          /\ sessions' = Insert(sessions, nextOid,
                                [BareDoc EXCEPT !.session_id = session_id,
                                                !.context = context,
                                                !.last_activity = now])
          /\ nextOid' = nextOid + 1
          /\ ret' = Called("update_session", NoId, TRUE)
          /\ UNCHANGED saved
    /\ UNCHANGED <<now, ui, session_store>>
    /\ UNCHANGED pageVars

\* $push the message, $set last_updated and expires_at, upsert
add_to_conversation_history(session_id, role, content) ==
    /\ \/ \E d \in BySessionId(sessions, session_id) :
             /\ sessions' = [sessions EXCEPT
                    ![d].conversation = Append(@, Message(role, content)),
                    ![d].expires_at = now + SESSION_TTL_DAYS]
             /\ UNCHANGED nextOid
       \/ /\ BySessionId(sessions, session_id) = {}
          /\ DocsLeft >= 1
          /\ sessions' = Insert(sessions, nextOid,
                                [BareDoc EXCEPT
                                    !.session_id = session_id,
                                    !.conversation = <<Message(role, content)>>,
                                    !.expires_at = now + SESSION_TTL_DAYS])
          /\ nextOid' = nextOid + 1
    /\ ret' = Called("add_to_conversation_history", NoId, FALSE)
    /\ UNCHANGED <<now, ui, session_store, saved>>
    /\ UNCHANGED pageVars

clear_conversation_history(session_id) ==
    /\ \/ \E d \in BySessionId(sessions, session_id) :
             sessions' = [sessions EXCEPT ![d].conversation = << >>]
       \/ /\ BySessionId(sessions, session_id) = {}
          /\ UNCHANGED sessions
    /\ ret' = Called("clear_conversation_history", NoId, FALSE)
    /\ UNCHANGED <<now, nextOid, ui, session_store, saved>>
    /\ UNCHANGED pageVars

----------------------------------------------------------------------------
(* app.save_message, app.handle_logout *)

\* ObjectId(st.session_state.student_id) if it is set, else None; a filter
\* on None selects the documents whose field is null or missing
UiStudentRef == IF ui.student_id # NoId THEN OidRef(ui.student_id) ELSE NullRef

StudentMatches(doc, ref) ==
    IF ref.tag = "null" THEN doc.student_id.tag \in {"null", "missing"}
    ELSE doc.student_id = ref

\* {"$or": [{"session_id": session_id}, {"student_id": ...}]} on the
\* collection S
MatchingSession(S) ==
    {d \in DOMAIN S : \/ S[d].session_id = ui.session_id
                      \/ StudentMatches(S[d], UiStudentRef)}

BySessionIdOrStudent == MatchingSession(sessions)

\* no conversation has reached n messages
ConvRoom(n) == \A d \in Ids : Len(sessions[d].conversation) < n

\* current_messages after the append and the trim to the last 80
Trimmed(conversation, message) ==
    LET appended == Append(conversation, message) IN
    IF Len(appended) > MAX_MESSAGES THEN LastN(appended, MAX_MESSAGES) ELSE appended

\* save_message, were the message put on every record the filter selects
SaveMessageOutcomesOnAll(S, oid, role, content) ==
    IF ui.session_id = NoId THEN {[sessions |-> S, inserted |-> 0, ok |-> FALSE]}
    ELSE {[sessions |-> [d \in DOMAIN S |->
                            [S[d] EXCEPT !.conversation =
                                             Trimmed(@, Message(role, content))]],
           inserted |-> 0, ok |-> TRUE]}

\* the outcomes of save_message(role, content) on the collection S when the
\* next ObjectId is oid: find_one returns any of the documents the filter
\* selects
SaveMessageOutcomes(S, oid, role, content) ==
    IF ui.session_id = NoId THEN {[sessions |-> S, inserted |-> 0, ok |-> FALSE]}
    ELSE IF MatchingSession(S) # {}
    THEN {[sessions |-> [S EXCEPT
                            ![d].conversation = Trimmed(@, Message(role, content)),
                            ![d].last_activity = now,
                            ![d].expires_at = now + SESSION_TTL_DAYS],
           inserted |-> 0, ok |-> TRUE] : d \in MatchingSession(S)}
    ELSE {[sessions |-> Insert(S, oid,
                               [BareDoc EXCEPT
                                   !.session_id = ui.session_id,
                                   !.student_id = UiStudentRef,
                                   !.created_at = now,
                                   !.last_activity = now,
                                   !.expires_at = now + SESSION_TTL_DAYS,
                                   !.conversation = <<Message(role, content)>>]),
           inserted |-> 1, ok |-> TRUE]}

save_message(role, content) ==
    /\ \E r \in SaveMessageOutcomes(sessions, nextOid, role, content) :
          /\ r.inserted <= DocsLeft
          /\ sessions' = r.sessions
          /\ nextOid' = nextOid + r.inserted
          /\ ret' = Called("save_message", NoId, r.ok)
    /\ UNCHANGED <<now, ui, session_store, saved>>
    /\ UNCHANGED pageVars

\* handle_logout's first update_one, the upsert of the summary on
\* {"student_id": ObjectId(student_id)}: the collection afterwards, the
\* document written, whether it was inserted, whether the store raised
\* the summary write, were an earlier context kept
SummaryWriteKeepsEarlier(summary) ==
    LET mine == {d \in Ids : sessions[d].student_id = OidRef(ui.student_id)} IN
    IF mine # {}
    THEN LET d == CHOOSE x \in mine : TRUE IN
         [sessions |-> [sessions EXCEPT
                           ![d].context = IF @ = "" THEN summary ELSE @,
                           ![d].last_activity = now],
          id |-> d, inserted |-> 0, raised |-> FALSE]
    ELSE [sessions |-> sessions, id |-> NoId, inserted |-> 0, raised |-> TRUE]

SummaryWrite(summary) ==
    LET mine == {d \in Ids : sessions[d].student_id = OidRef(ui.student_id)}
        S2 == Insert(sessions, nextOid,
                     [BareDoc EXCEPT !.student_id = OidRef(ui.student_id),
                                     !.context = summary,
                                     !.last_activity = now])
    IN
    IF mine # {}
    THEN LET d == CHOOSE x \in mine : TRUE IN
         [sessions |-> [sessions EXCEPT ![d].context = summary,
                                        ![d].last_activity = now],
          id |-> d, inserted |-> 0, raised |-> FALSE]
    ELSE IF UniqueOk(S2)
    THEN [sessions |-> S2, id |-> nextOid, inserted |-> 1, raised |-> FALSE]
    ELSE [sessions |-> sessions, id |-> NoId, inserted |-> 0, raised |-> TRUE]

\* an update_one on {"session_id": session_id} that sets last_activity
ActivityWrite(S, session_id) ==
    LET hit == {d \in DOMAIN S : S[d].session_id = session_id} IN
    IF hit = {} THEN S
    ELSE LET d == CHOOSE x \in hit : TRUE IN [S EXCEPT ![d].last_activity = now]

\* the Logout button of main(), shown to an authenticated user; summary is
\* what get_llm_summary returns.  A store error skips the rest of the try
\* block; the page state is cleared in every case.
\* st.session_state.clear(), were user_info kept
AfterClearKept(U) == U

\* st.session_state.clear() and, on the rerun, initialize_session_state: the
\* user_info of the page after it
AfterClear(U) == EmptyUserInfo

handle_logout(summary) ==
    /\ ui.is_authenticated
    /\ \/ \E d \in BySessionIdOrStudent :
             IF Len(sessions[d].conversation) > 0
             THEN LET w == SummaryWrite(summary) IN
                  /\ w.inserted <= DocsLeft
                  /\ sessions' = IF w.raised THEN w.sessions
                                 ELSE ActivityWrite(w.sessions, ui.session_id)
                  /\ nextOid' = nextOid + w.inserted
                  /\ saved' = IF w.raised THEN saved
                              ELSE [id |-> w.id, student_id |-> ui.student_id,
                                    context |-> summary]
                  /\ ret' = Called("handle_logout", NoId, ~w.raised)
             ELSE /\ sessions' = ActivityWrite(sessions, ui.session_id)
                  /\ ret' = Called("handle_logout", NoId, FALSE)
                  /\ UNCHANGED <<nextOid, saved>>
       \/ /\ BySessionIdOrStudent = {}
          /\ sessions' = ActivityWrite(sessions, ui.session_id)
          /\ ret' = Called("handle_logout", NoId, FALSE)
          /\ UNCHANGED <<nextOid, saved>>
    /\ ui' = InitialUi
    /\ user_info' = AfterClear(user_info)
    /\ messages' = << >>
    /\ alerts' = << >>
    /\ UNCHANGED <<now, session_store, students, llm_calls>>
    /\ UNCHANGED <<llm_io, outcome, threads, objects>>

----------------------------------------------------------------------------
(* app.is_valid_exam *)

\* the dicts in the order they are written, which is the order .items()
\* yields
MEDICAL_EXAMS ==
    << [exam |-> "NEET",
        keywords |-> <<"NEET", "Medical", "AIPMT", "MBBS", "AIIMS", "JIPMER">>],
       [exam |-> "AIIMS",
        keywords |-> <<"AIIMS", "All India Institute of Medical Sciences">>],
       [exam |-> "JIPMER",
        keywords |-> <<"JIPMER",
                       "Jawaharlal Institute of Postgraduate Medical Education and Research">>],
       [exam |-> "PGIMER", keywords |-> <<"PGIMER", "Post Graduate Institute">>],
       [exam |-> "AIIMS PG", keywords |-> <<"AIIMS PG", "AIIMS Post Graduate">>] >>

ENGINEERING_EXAMS ==
    << [exam |-> "JEE Mains",
        keywords |-> <<"JEE Mains", "JEE Main", "Joint Entrance Main", "JEE">>],
       [exam |-> "JEE Advanced", keywords |-> <<"JEE Advanced", "IIT JEE", "IIT-JEE">>],
       [exam |-> "BITSAT", keywords |-> <<"BITSAT", "BITS Pilani">>],
       [exam |-> "VITEEE", keywords |-> <<"VITEEE", "VIT", "Vellore">>],
       [exam |-> "SRMJEEE", keywords |-> <<"SRMJEEE", "SRM", "SRM University">>],
       [exam |-> "COMEDK", keywords |-> <<"COMEDK", "Karnataka">>],
       [exam |-> "WBJEE", keywords |-> <<"WBJEE", "West Bengal">>],
       [exam |-> "MHT CET", keywords |-> <<"MHT CET", "Maharashtra">>],
       [exam |-> "KCET", keywords |-> <<"KCET", "Karnataka">>],
       [exam |-> "AP EAMCET", keywords |-> <<"AP EAMCET", "Andhra Pradesh", "EAMCET">>],
       [exam |-> "TS EAMCET", keywords |-> <<"TS EAMCET", "Telangana", "EAMCET">>] >>

\* any(keyword.lower() in exam_lower for keyword in keywords)
AnyKeywordIn(keywords, exam_lower) ==
    \E k \in Range(keywords) : Contains(StrLower(k), exam_lower)

\* the first entry of the table with a keyword in exam_lower, 0 if none
FirstEntry(table, exam_lower) ==
    LET hit == {i \in 1..Len(table) : AnyKeywordIn(table[i].keywords, exam_lower)} IN
    IF hit = {} THEN 0 ELSE CHOOSE i \in hit : \A j \in hit : i <= j

is_valid_exam_lenient(exam_name) ==
    [valid |-> TRUE, exam |-> exam_name, category |-> "medical"]

is_valid_exam(exam_name) ==
    LET exam_lower == StrLower(exam_name)
        m == FirstEntry(MEDICAL_EXAMS, exam_lower)
        e == FirstEntry(ENGINEERING_EXAMS, exam_lower)
    IN
    IF m # 0 THEN [valid |-> TRUE, exam |-> MEDICAL_EXAMS[m].exam, category |-> "medical"]
    ELSE IF e # 0
    THEN [valid |-> TRUE, exam |-> ENGINEERING_EXAMS[e].exam, category |-> "engineering"]
    ELSE [valid |-> FALSE, exam |-> exam_name, category |-> ""]

----------------------------------------------------------------------------
(* What is typed into the chat input                                       *)

\* the backquote, and the fence of three that opens and closes a code block
Backquote == SubSeq("`'", 1, 1)
Fence == Backquote \o Backquote \o Backquote

\* what the student types: an exam, no exam, subjects, no subject, and
\* marks that are no number, in range and out of range
ProfileInputs ==
    {"NEET", "xyz", "Physics, Chemistry", " , ", "skip", "70", "100", "150", "-5"}

\* the inputs of the spec's scenario A
ScenarioA == <<"NEET", "Physics, Chemistry, Biology", "skip", "70", "80", "90">>

\* answers that complete a profile
ProfileAnswers == {"NEET", "physics", "70"}

\* the questions, and one that has its denylist keyword in a code span
AskInputs ==
    Questions \cup {"how to " \o Backquote \o "hack" \o Backquote \o " the exam"}

\* answers and questions typed at any time
ChatInputs == ProfileAnswers \cup {"explain time management", "how to hack the exam"}

\* every name and synonym of the tables
ListedNames ==
    UNION {Range(MEDICAL_EXAMS[i].keywords) : i \in 1..Len(MEDICAL_EXAMS)}
        \cup UNION {Range(ENGINEERING_EXAMS[i].keywords) : i \in 1..Len(ENGINEERING_EXAMS)}

\* exam names typed: every listed name as written, in lower case and in
\* upper case, a sentence around one, and names of no exam
ExamInputs ==
    ListedNames \cup {StrLower(k) : k \in ListedNames}
                \cup {StrUpper(k) : k \in ListedNames}
                \cup {"I am preparing for NEET", "xyz", "UPSC", "G A T E"}

\* everything typed in some specification
Typed ==
    ProfileInputs \cup Range(ScenarioA) \cup ChatInputs \cup AskInputs \cup ExamInputs

----------------------------------------------------------------------------
(* float(prompt) on the literal forms a student types: blanks around, a    *)
(* sign, digits with or without a fraction, and the words nan, inf and     *)
(* infinity.  An exponent or an underscore between digits is not among the *)
(* inputs and is not parsed here.                                          *)

AllDigits(s) == \A i \in 1..Len(s) : IndexIn(Digits, CharAt(s, i)) # {}

RECURSIVE DigitsValue(_)
DigitsValue(s) ==
    IF s = "" THEN 0
    ELSE 10 * DigitsValue(SubSeq(s, 1, Len(s) - 1))
            + (CHOOSE i \in IndexIn(Digits, CharAt(s, Len(s))) : TRUE) - 1

RECURSIVE Pow10(_)
Pow10(k) == IF k = 0 THEN 1 ELSE 10 * Pow10(k - 1)

\* float raises ValueError
ValueError == [ok |-> FALSE, kind |-> "", neg |-> FALSE, num |-> 0, den |-> 1]

\* the float num/den, negated if neg; kind is "num", "nan" or "inf"
ParseFloat(prompt) ==
    LET t == Strip(prompt)
        signed == t # "" /\ CharAt(t, 1) \in {"+", "-"}
        neg == signed /\ CharAt(t, 1) = "-"
        body == IF signed THEN From(t, 2) ELSE t
        dots == {i \in 1..Len(body) : CharAt(body, i) = "."}
        dot == IF dots = {} THEN Len(body) + 1 ELSE CHOOSE i \in dots : TRUE
        whole == SubSeq(body, 1, dot - 1)
        frac == SubSeq(body, dot + 1, Len(body))
    IN
    IF StrLower(body) = "nan" THEN [ValueError EXCEPT !.ok = TRUE, !.kind = "nan"]
    ELSE IF StrLower(body) \in {"inf", "infinity"}
    THEN [ValueError EXCEPT !.ok = TRUE, !.kind = "inf", !.neg = neg]
    ELSE IF /\ Cardinality(dots) <= 1
            /\ whole \o frac # ""
            /\ AllDigits(whole) /\ AllDigits(frac)
    THEN [ok |-> TRUE, kind |-> "num", neg |-> neg,
          num |-> DigitsValue(whole \o frac), den |-> Pow10(Len(frac))]
    ELSE ValueError

InRangeAny(f) == TRUE

\* 0 <= marks <= 100
InRange(f) ==
    /\ f.kind = "num"
    /\ (f.num = 0 \/ ~f.neg)
    /\ (f.neg \/ f.num <= 100 * f.den)

\* the value of a float in range, as a fraction in lowest decimal terms
RECURSIVE Reduced(_, _)
Reduced(num, den) ==
    IF den > 1 /\ num % 10 = 0 THEN Reduced(num \div 10, den \div 10)
    ELSE [num |-> num, den |-> den]

FloatValue(f) == Reduced(f.num, f.den)

----------------------------------------------------------------------------
(* app.process_user_input and the prompt selection of app.main             *)

ExamRePrompt ==
    "\n            Please enter a valid medical or engineering entrance exam. Examples:\n"
    \o "            \n            **Medical Exams:**\n"
    \o "            - NEET (National Eligibility cum Entrance Test)\n"
    \o "            - AIIMS (All India Institute of Medical Sciences)\n"
    \o "            - JIPMER (Jawaharlal Institute of Postgraduate Medical Education and Research)\n"
    \o "            \n            **Engineering Exams:**\n"
    \o "            - JEE Mains/Advanced (Joint Entrance Examination)\n"
    \o "            - BITSAT (Birla Institute of Technology and Science Admission Test)\n"
    \o "            - VITEEE (Vellore Institute of Technology Engineering Entrance Exam)\n"
    \o "            - SRMJEEE (SRM Joint Engineering Entrance Exam)\n"
    \o "            \n            Please enter the full name or common abbreviation of your exam.\n"
    \o "            "

SubjectsQuestion(exam_name) ==
    "Great! You're preparing for " \o exam_name
    \o ". What subjects are you studying? (Please list them separated by commas, e.g., Physics, Chemistry, Biology)"

SubjectsRePrompt == "Please enter at least one valid subject name."

MarksQuestion(subject) ==
    "What are your marks in " \o subject \o "? (Enter a number between 0-100)"

MarksRePrompt == "Please enter a valid number between 0 and 100."

WelcomeWithoutSubjects(exam_type, subject_list) ==
    "Great! I'm all set to help you with your " \o exam_type \o " preparation!\n\n"
    \o "You can ask me about:\n- Study techniques for your subjects\n"
    \o "- Time management strategies\n- Specific topics you're struggling with\n"
    \o "- Practice questions\n- And much more!\n\nWhat would you like to start with?"

\* the welcome message of the flow's completion
WelcomeMessage(exam_type, subject_list) ==
    "Great! I'm all set to help you with your " \o exam_type \o " preparation!\n\n"
    \o "You can ask me about:\n- Study techniques for " \o subject_list \o "\n"
    \o "- Time management strategies\n- Specific topics you're struggling with\n"
    \o "- Practice questions\n- And much more!\n\nWhat would you like to start with?"

\* the prompts main() can add before the chat input
ExamPrompt == "Which exam are you preparing for? (e.g., JEE Mains, NEET etc.)"

ContextPrompt ==
    "Is there any additional context or specific challenges you'd like to share? (e.g., 'I struggle with calculus' or 'I need help with time management')\n\n"
    \o "You can also type 'skip' if you don't have any specific context to add."

SaidNever(M, text) == FALSE

\* any(msg["content"] == prompt_text for msg in st.session_state.messages)
Said(M, text) == \E i \in 1..Len(M) : M[i].content = text

\* main(), "If user info is not complete, show the appropriate prompt": the
\* messages after it
WithPrompt(U, M) ==
    LET prompt_text == IF U.exam_type = "" THEN ExamPrompt ELSE ContextPrompt
        should_show ==
            IF U.exam_type = "" THEN ~Said(M, prompt_text)
            ELSE IF U.subjects = << >> THEN FALSE
            ELSE IF ~U.context_provided THEN ~Said(M, prompt_text)
            ELSE FALSE
    IN
    IF ~U.profile_complete /\ should_show
    THEN Append(M, Message("assistant", prompt_text))
    ELSE M

\* [s.strip().lower() for s in prompt.split(",") if s.strip()]
RECURSIVE CleanSubjects(_)
CleanSubjects(parts) ==
    IF parts = << >> THEN << >>
    ELSE IF Strip(parts[1]) = "" THEN CleanSubjects(Tail(parts))
    ELSE <<StrLower(Strip(parts[1]))>> \o CleanSubjects(Tail(parts))

\* [s.capitalize() for s in subjects_list]
RECURSIVE CapitalizeAll(_)
CapitalizeAll(parts) ==
    IF parts = << >> THEN << >>
    ELSE <<Capitalize(parts[1])>> \o CapitalizeAll(Tail(parts))

\* d[k] = v on a dict
Put(d, k, v) == [x \in DOMAIN d \cup {k} |-> IF x = k THEN v ELSE d[x]]

\* The functions of the prompt alone, tabulated over what is typed:
\* is_valid_exam(prompt), the subjects of prompt.split(","), float(prompt)
ExamOf == [p \in Typed |-> is_valid_exam(p)]
SubjectsOf == [p \in Typed |-> CleanSubjects(SplitCommas(p))]
FloatOf == [p \in Typed |-> ParseFloat(p)]

\* the branch "not exam_type", were awaiting_subjects left unset
ExamStepNotAwaiting(U, prompt) ==
    LET r == ExamOf[prompt] IN
    IF ~r.valid THEN [user_info |-> U, response |-> ExamRePrompt]
    ELSE [user_info |-> [U EXCEPT !.exam_type = r.exam,
                                   !.exam_category = r.category,
                                   !.subjects = << >>,
                                   !.subject_marks = << >>],
          response |-> SubjectsQuestion(r.exam)]

\* the branch "not exam_type"
ExamStep(U, prompt) ==
    LET r == ExamOf[prompt] IN
    IF ~r.valid THEN [user_info |-> U, response |-> ExamRePrompt]
    ELSE [user_info |-> [U EXCEPT !.exam_type = r.exam,
                                   !.exam_category = r.category,
                                   !.subjects = << >>,
                                   !.subject_marks = << >>,
                                   !.awaiting_subjects = TRUE],
          response |-> SubjectsQuestion(r.exam)]

SubjectsStepStillAwaiting(U, prompt) ==
    LET subjects == SubjectsOf[prompt] IN
    IF subjects = << >> THEN [user_info |-> U, response |-> SubjectsRePrompt]
    ELSE [user_info |-> [U EXCEPT !.pending_subjects = subjects,
                                   !.current_subject_index = 0,
                                   !.awaiting_marks = TRUE],
          response |-> MarksQuestion(subjects[1])]

\* the branch "awaiting_subjects"
SubjectsStep(U, prompt) ==
    LET subjects == SubjectsOf[prompt] IN
    IF subjects = << >> THEN [user_info |-> U, response |-> SubjectsRePrompt]
    ELSE [user_info |-> [U EXCEPT !.pending_subjects = subjects,
                                   !.current_subject_index = 0,
                                   !.awaiting_subjects = FALSE,
                                   !.awaiting_marks = TRUE],
          response |-> MarksQuestion(subjects[1])]

MarksStepNotStored(U, prompt) ==
    LET marks == FloatOf[prompt]
        subjects == U.pending_subjects
        next_idx == U.current_subject_index + 1
    IN
    IF ~marks.ok \/ ~InRange(marks) THEN [user_info |-> U, response |-> MarksRePrompt]
    ELSE IF next_idx < Len(subjects)
    THEN [user_info |-> [U EXCEPT !.current_subject_index = next_idx],
          response |-> MarksQuestion(subjects[next_idx + 1])]
    ELSE [user_info |-> [U EXCEPT !.subjects = subjects,
                                   !.profile_complete = TRUE,
                                   !.context_provided = TRUE,
                                   !.pending_subjects = << >>,
                                   !.current_subject_index = Absent,
                                   !.awaiting_marks = FALSE],
          response |-> WelcomeMessage(U.exam_type,
                                      JoinComma(CapitalizeAll(subjects)))]

\* the branch "awaiting_marks"; the index counts from 0 as in the code.  On
\* the last subject the flow completes: nothing is written to the store
\* here, the marks stay in user_info.
\* the marks branch, were the index never moved on
MarksStepSameSubject(U, prompt) ==
    LET marks == FloatOf[prompt]
        subjects == U.pending_subjects
        current_subject == subjects[U.current_subject_index + 1]
    IN
    IF ~marks.ok \/ ~InRange(marks) THEN [user_info |-> U, response |-> MarksRePrompt]
    ELSE [user_info |-> [U EXCEPT !.subject_marks =
                                      Put(@, current_subject, FloatValue(marks))],
          response |-> MarksQuestion(current_subject)]

MarksStep(U, prompt) ==
    LET marks == FloatOf[prompt]
        current_idx == U.current_subject_index
        subjects == U.pending_subjects
        current_subject == subjects[current_idx + 1]
        next_idx == current_idx + 1
        stored == [U EXCEPT !.subject_marks = Put(@, current_subject, FloatValue(marks))]
    IN
    IF ~marks.ok \/ ~InRange(marks) THEN [user_info |-> U, response |-> MarksRePrompt]
    ELSE IF next_idx < Len(subjects)
    THEN [user_info |-> [stored EXCEPT !.current_subject_index = next_idx],
          response |-> MarksQuestion(subjects[next_idx + 1])]
    ELSE [user_info |-> [stored EXCEPT !.subjects = subjects,
                                        !.profile_complete = TRUE,
                                        !.context_provided = TRUE,
                                        !.pending_subjects = << >>,
                                        !.current_subject_index = Absent,
                                        !.awaiting_marks = FALSE],
          response |-> WelcomeMessage(U.exam_type,
                                      JoinComma(CapitalizeAll(subjects)))]

\* process_user_input(prompt) on the user_info U and the messages M.  The
\* branch that compares with previous marks, the only place that writes
\* marks to the store, needs the key "previous_marks" in user_info; no
\* statement of the program stores that key, so the branch is never taken
\* and is not modelled.  The branch after it completes a profile that is in
\* none of the three stages; with a complete profile there is no response.
ProcessUserInput(U, M, prompt) ==
    LET M1 == Append(M, Message("user", prompt))
        r == IF U.exam_type = "" THEN ExamStep(U, prompt)
             ELSE IF U.awaiting_subjects THEN SubjectsStep(U, prompt)
             ELSE IF U.awaiting_marks THEN MarksStep(U, prompt)
             ELSE IF ~U.profile_complete
             THEN [user_info |-> [U EXCEPT !.profile_complete = TRUE,
                                           !.context_provided = TRUE],
                   response |-> WelcomeMessage(U.exam_type, JoinComma(U.subjects))]
             ELSE [user_info |-> U, response |-> ""]
    IN
    [user_info |-> r.user_info,
     messages |-> IF r.response = "" THEN M1
                  ELSE Append(M1, Message("assistant", r.response)),
     returned |-> r.response = ""]

----------------------------------------------------------------------------
(* exam_buddy.get_exam_buddy_response *)

WithHistoryFresh(store, session_id) ==
    [k \in DOMAIN store \cup {session_id} |->
        IF k = session_id THEN << >> ELSE store[k]]

\* get_session_history: the entry is created when it is missing
WithHistory(store, session_id) ==
    IF session_id \in DOMAIN store THEN store
    ELSE [k \in DOMAIN store \cup {session_id} |->
            IF k = session_id THEN << >> ELSE store[k]]

\* session_context: session.get('context', '') if session else ''
SessionContext(S, session_id) ==
    LET g == GetSessionOutcome(S, session_id) IN
    IF g.ok THEN g.context ELSE ""

\* re.sub(r'http\S+|www.\S+', '', text): the length of the match that starts
\* at position i, 0 if none does
NonSpaceRun(s, i) ==
    LET stops == {j \in i..Len(s) : CharAt(s, j) \in Whitespace} IN
    IF stops = {} THEN Len(s) - i + 1
    ELSE (CHOOSE j \in stops : \A k \in stops : j <= k) - i

\* In the operators below an argument that is used more than once is first
\* bound to a name by "\in {argument}", so that it is computed once.
UrlLength(s, i) ==
    CHOOSE n \in
        {IF j + 3 <= Len(t) /\ SubSeq(t, j, j + 3) = "http" /\ NonSpaceRun(t, j + 4) >= 1
         THEN 4 + NonSpaceRun(t, j + 4)
         ELSE IF /\ j + 3 <= Len(t) /\ SubSeq(t, j, j + 2) = "www"
                 /\ CharAt(t, j + 3) # "\n" /\ NonSpaceRun(t, j + 4) >= 1
         THEN 4 + NonSpaceRun(t, j + 4)
         ELSE 0 : t \in {s}, j \in {i}} : TRUE

RECURSIVE RemoveUrlsFrom(_, _)
RemoveUrlsFrom(s, i) ==
    CHOOSE r \in
        {IF j > Len(t) THEN ""
         ELSE IF n > 0 THEN RemoveUrlsFrom(t, j + n)
         ELSE CharAt(t, j) \o RemoveUrlsFrom(t, j + 1) :
             <<t, j, n>> \in {<<s, i, UrlLength(s, i)>>}} : TRUE

\* the length of the shortest match of mark.*?mark that starts at position
\* i, 0 if none does; without DOTALL the dot does not match a newline
SpanLength(s, i, mark, dotall) ==
    CHOOSE r \in
        {LET n == Len(m)
             ends == {k \in (j + n)..(Len(t) - n + 1) :
                         /\ SubSeq(t, k, k + n - 1) = m
                         /\ dotall \/ ~Contains("\n", SubSeq(t, j + n, k - 1))}
         IN
         IF j + n - 1 <= Len(t) /\ SubSeq(t, j, j + n - 1) = m /\ ends # {}
         THEN (CHOOSE k \in ends : \A l \in ends : k <= l) + n - j
         ELSE 0 : t \in {s}, j \in {i}, m \in {mark}} : TRUE

RECURSIVE RemoveSpansFrom(_, _, _, _)
RemoveSpansFrom(s, i, mark, dotall) ==
    CHOOSE r \in
        {IF j > Len(t) THEN ""
         ELSE IF n > 0 THEN RemoveSpansFrom(t, j + n, m, dotall)
         ELSE CharAt(t, j) \o RemoveSpansFrom(t, j + 1, m, dotall) :
             <<t, j, m, n>> \in {<<s, i, mark, SpanLength(s, i, mark, dotall)>>}} : TRUE

\* filter_user_input
filter_user_input(text) ==
    CHOOSE r \in
        {Strip(IF Len(no_code) > max_length
               THEN SubSeq(no_code, 1, max_length) \o "... [truncated]"
               ELSE no_code) :
            no_code \in
                {RemoveSpansFrom(no_fences, 1, Backquote, FALSE) :
                    no_fences \in
                        {RemoveSpansFrom(no_urls, 1, Fence, TRUE) :
                            no_urls \in {RemoveUrlsFrom(text, 1)}}}} : TRUE

inappropriate_keywords ==
    {"personal information", "password", "credit card", "ssn", "social security",
     "illegal", "hack", "cheat", "exam paper", "leak", "adult content",
     "porn", "violence", "hate speech", "discrimination"}

should_respond_always(text) == TRUE

\* should_respond_to_input
should_respond_to_input(text) ==
    ~\E keyword \in inappropriate_keywords : Contains(keyword, StrLower(text))

\* what apply_guardrails returns when it rejects the question
TopicRefusal ==
    "I'm sorry, but I can only assist with exam preparation and study-related questions. Is there something about your studies I can help you with?"

\* what get_exam_buddy_response returns when anything in it raised
EngineApology ==
    "I'm sorry, I encountered an error while processing your request. Please try again later."

\* apply_guardrails(inputs): the dict it returns has the key "question" (the
\* filtered question) only when the question passes; the language it adds
\* then is not modelled
apply_guardrails(question) ==
    LET filtered_question == filter_user_input(question) IN
    IF ~should_respond_to_input(filtered_question)
    THEN [has_question |-> FALSE, question |-> "", response |-> TopicRefusal]
    ELSE [has_question |-> TRUE, question |-> filtered_question, response |-> ""]

\* apply_guardrails tabulated over what is typed
GuardrailsOf == [q \in Typed |-> apply_guardrails(q)]

\* the default of the chain's final formatting step
NotSure == "I'm not sure how to respond to that."

\* the final formatting step, x.get("response", NotSure): the default is
\* taken only when x has no key "response"
FinalFormatting(x) == IF x.has_response THEN x.response ELSE NotSure

\* chain.invoke on a question: process_with_llm reads x["processed"]["question"]
\* first, a KeyError when the guardrails rejected; otherwise it invokes the
\* model, which answers with a text or raises (reply), and returns a dict
\* with the key "response" holding the parsed text, whatever the text is
ChainOutcome(question, reply) ==
    LET processed == GuardrailsOf[question] IN
    IF ~processed.has_question THEN [raised |-> TRUE, invoked |-> 0, response |-> ""]
    ELSE IF reply.raised THEN [raised |-> TRUE, invoked |-> 1, response |-> ""]
    ELSE [raised |-> FALSE, invoked |-> 1,
          response |-> FinalFormatting([has_response |-> TRUE,
                                        response |-> reply.text])]

\* the store calls of one engine call that may raise: the find_one of
\* auth.get_session (lookup) and the update_one of the activity update
NoFaults == [lookup |-> FALSE, update |-> FALSE]
Faults == [lookup : BOOLEAN, update : BOOLEAN]

\* the text of what chain.invoke raises, str(e)
ChainError == "chain.invoke raised"

ExceptClauseRaw(e) == e

\* the except clause of get_exam_buddy_response: whatever was raised, the
\* apology is returned
ExceptClause(e) == EngineApology

\* auth.get_session when its find_one raises: the except clause returns None
GetSessionFailed(S) == [sessions |-> S, ok |-> FALSE, id |-> NoId, context |-> ""]

\* the outcome of get_exam_buddy_response(question, session_id) on the
\* collection S and the history store, under the faults f.
\* RunnableWithMessageHistory records the question and the answer when the
\* chain returns; when it raises, the apology is returned and the activity
\* update is skipped.  failed names what raised in the call.  A failed lookup leaves session None: the chain runs
\* and no activity update is made.  The activity update is made only for a
\* session that was found; when it raises, the history has been recorded
\* already and the apology is returned.
EngineOutcomeUnder(S, store, session_id, question, reply, f) ==
    CHOOSE e \in
        {LET recorded == [history EXCEPT ![session_id] =
                             @ \o <<[role |-> "human", content |-> question],
                                    [role |-> "ai", content |-> c.response]>>]
             failed == (IF f.lookup THEN {"lookup"} ELSE {})
                       \cup (IF c.raised /\ c.invoked = 0 THEN {"chain"} ELSE {})
                       \cup (IF c.raised /\ c.invoked = 1 THEN {"model"} ELSE {})
                       \cup (IF ~c.raised /\ g.ok /\ f.update THEN {"update"} ELSE {})
         IN
         IF c.raised
         THEN [sessions |-> g.sessions, session_store |-> history,
               failed |-> failed, invoked |-> c.invoked, answered |-> FALSE,
               response |-> ExceptClause(ChainError)]
         ELSE IF g.ok /\ f.update
         THEN [sessions |-> g.sessions, session_store |-> recorded,
               failed |-> failed, invoked |-> 1, answered |-> FALSE,
               response |-> ExceptClause(StoreError)]
         ELSE [sessions |-> IF g.ok THEN ActivityWrite(g.sessions, session_id)
                            ELSE g.sessions,
               session_store |-> recorded, failed |-> failed,
               invoked |-> 1, answered |-> TRUE, response |-> c.response] :
            g \in {IF f.lookup THEN GetSessionFailed(S)
                   ELSE GetSessionOutcome(S, session_id)},
            history \in {WithHistory(store, session_id)},
            c \in {ChainOutcome(question, reply)}} : TRUE

\* the engine when no store call fails
EngineOutcome(S, store, session_id, question, reply) ==
    EngineOutcomeUnder(S, store, session_id, question, reply, NoFaults)

\* what the model was handed and gave at an invocation: the recap of stored
\* messages in the context, and the text (none when it raised)
Invocation(recap, reply) ==
    [invoked |-> TRUE, recap |-> recap, raised |-> reply.raised,
     text |-> IF reply.raised THEN "" ELSE reply.text]

\* get_exam_buddy_response called with the session id of the page of an
\* authenticated user and no context, under the faults f
engine_call(question, reply, f) ==
    \E sid \in {ui.session_id} :
    \E e \in {EngineOutcomeUnder(sessions, session_store, sid, question, reply, f)} :
    /\ ui.is_authenticated
    /\ Len(WithHistory(session_store, sid)[sid]) < 2 * MaxConv
    /\ llm_calls < MaxCalls
    /\ session_store' = e.session_store
    /\ sessions' = e.sessions
    /\ llm_calls' = llm_calls + e.invoked
    /\ llm_io' = IF e.invoked = 1 THEN Invocation(<< >>, reply) ELSE llm_io
    /\ outcome' = Ended("get_exam_buddy_response", e.failed, FALSE, e.response)
    /\ ret' = Called("get_exam_buddy_response", NoId, e.answered)
    /\ UNCHANGED <<now, nextOid, ui, saved, user_info, messages, students>>
    /\ UNCHANGED <<alerts, threads, objects>>

\* called with the session id of the page of an authenticated user
get_exam_buddy_response(question, reply) == engine_call(question, reply, NoFaults)

----------------------------------------------------------------------------
(* app.get_response_async and the chat input of app.main                   *)

\* the questions get_response_async answers from the stored conversation
LastQuestionRequests ==
    {"what was the last thing i asked you", "what did i just ask",
     "repeat my last question"}

\* question.strip().lower() in [...], tabulated over what is typed
AsksLastQuestion == [q \in Typed |-> StrLower(Strip(q)) \in LastQuestionRequests]

\* db_manager.get_conversation(session_id): MongoDBManager defines no method
\* of that name (its method is get_conversation_history), so the attribute
\* lookup raises AttributeError
get_conversation(S, session_id) == [raised |-> TRUE, history |-> << >>]

\* the last user message of history[:-1], "" if there is none
LastUserMessage(history) ==
    LET earlier == {i \in 1..(Len(history) - 1) : history[i].role = "user"} IN
    IF earlier = {} THEN ""
    ELSE history[CHOOSE i \in earlier : \A j \in earlier : j <= i].content

NoRecordReply ==
    "I don't have a record of your previous question. How can I assist you today?"

\* get_response_async up to its call of the engine: the reply it returns
\* itself, or "" when it goes on to call get_exam_buddy_response.  Its
\* except clause catches what the lookup raises and the call of the engine
\* follows; the history it would add to the context is lost the same way.
EarlyReply(S, session_id, question) ==
    LET c == get_conversation(S, session_id) IN
    IF c.raised \/ ~AsksLastQuestion[question] THEN ""
    ELSE IF c.history # << >> /\ LastUserMessage(c.history) # ""
    THEN "You previously asked: \"" \o LastUserMessage(c.history) \o "\""
    ELSE NoRecordReply

ProfileNeverIncomplete(U) == FALSE

\* not st.session_state.user_info.get("profile_complete", False)
ProfileIncomplete(U) == ~U.profile_complete

\* history[-3:]
LastThree(history) ==
    SubSeq(history, IF Len(history) > 3 THEN Len(history) - 2 ELSE 1, Len(history))

\* the recap get_response_async adds to the context: the last 3 messages of
\* db_manager.get_conversation(session_id), nothing when the lookup raised
\* (the except clause prints and the call of the engine follows)
HistoryContext(S, session_id) ==
    LET c == get_conversation(S, session_id) IN
    IF c.raised \/ c.history = << >> THEN << >> ELSE LastThree(c.history)

\* the chat input of main() for an authenticated user, under the faults f of
\* the engine's store calls.  With an incomplete profile the prompt goes to
\* process_user_input.  Otherwise the prompt is saved, get_student_data
\* reads the session (auth.get_student calls get_session),
\* get_response_async answers, and the answer is saved; both messages are
\* added to the page's list.  Of the context handed to the engine only the
\* recap of stored messages is modelled.
chat_turn(prompt, reply, f) ==
    LET sid == ui.session_id
        M0 == WithPrompt(user_info, messages)
    IN
    /\ ui.is_authenticated
    /\ IF ProfileIncomplete(user_info)
       THEN /\ \E p \in {ProcessUserInput(user_info, M0, prompt)} :
                  /\ user_info' = p.user_info
                  /\ messages' = p.messages
                  /\ ret' = Called("process_user_input", prompt, p.returned)
            /\ UNCHANGED <<sessions, nextOid, session_store, llm_calls, llm_io,
                           outcome>>
       ELSE /\ \E s1 \in SaveMessageOutcomes(sessions, nextOid, "user", prompt) :
                  \E g \in {GetSessionOutcome(s1.sessions, sid)} :
                  \E early \in {EarlyReply(g.sessions, sid, prompt)},
                     recap \in {HistoryContext(g.sessions, sid)},
                     e \in {EngineOutcomeUnder(g.sessions, session_store, sid,
                                              prompt, reply, f)} :
                  \E response \in {IF early # "" THEN early ELSE e.response},
                     S2 \in {IF early # "" THEN g.sessions ELSE e.sessions} :
                  \E s2 \in SaveMessageOutcomes(S2, nextOid + s1.inserted,
                                                "assistant", response) :
                      /\ s1.inserted + s2.inserted <= DocsLeft
                      /\ sessions' = s2.sessions
                      /\ nextOid' = nextOid + s1.inserted + s2.inserted
                      /\ session_store' = IF early # "" THEN session_store
                                          ELSE e.session_store
                      /\ llm_calls' = IF early # "" THEN llm_calls
                                      ELSE llm_calls + e.invoked
                      /\ llm_io' = IF early = "" /\ e.invoked = 1
                                   THEN Invocation(recap, reply) ELSE llm_io
                      /\ outcome' = IF early # "" THEN outcome
                                    ELSE Ended("get_exam_buddy_response",
                                               e.failed, FALSE, e.response)
                      /\ messages' = M0 \o <<Message("user", prompt),
                                             Message("assistant", response)>>
                      /\ ret' = IF early # ""
                                THEN Called("get_response_async", prompt, TRUE)
                                ELSE Called("get_exam_buddy_response", prompt, e.answered)
            /\ UNCHANGED user_info
    /\ alerts' = PageAlerts
    /\ UNCHANGED <<now, ui, saved, students>>
    /\ UNCHANGED <<threads, objects>>

\* the chat input when no store call of the engine fails
chat_input(prompt, reply) == chat_turn(prompt, reply, NoFaults)

----------------------------------------------------------------------------
(* The session lifecycle: auth.py and the page's handlers *)

\* messages stored in all conversations
Stored == UNION {{<<d, k>> : k \in 1..Len(sessions[d].conversation)} : d \in Ids}

\* main() saves the user's prompt, then the assistant's answer to it
Turn == IF Cardinality(Stored) % 2 = 0 THEN "user" ELSE "assistant"

\* login's current_session_id is none or an id the caller made up; the
\* session ids of the other calls are any the system knows
Next ==
    \/ \E s \in StudentInputs, c \in {NoId} \cup ExternalIds : login(s, c)
    \/ \E s \in StudentInputs : show_login(s)
    \/ \E i \in KnownIds : get_session(i)
    \/ \E i \in KnownIds, s \in {NoId} \cup StudentIds : ensure_session_exists(i, s)
    \/ \E i \in {NoId} \cup KnownIds : logout(i)
    \/ \E i \in KnownIds : db_get_session(i)
    \/ \E r \in {Turn}, c \in Contents : ConvRoom(MaxConv) /\ save_message(r, c)
    \/ \E c \in Summaries : handle_logout(c)
    \/ Tick
    \/ TtlMonitor

Spec == Init /\ [][Next]_vars

----------------------------------------------------------------------------
(* One session filled with messages: the page's save_message and the       *)
(* persistence layer's add_to_conversation_history, each message numbered  *)
(* in the order of the appends                                             *)

\* the number of the last message appended
Appended ==
    LET last == {sessions[d].conversation[Len(sessions[d].conversation)].content :
                    d \in {x \in Ids : sessions[x].conversation # << >>}}
    IN IF last = {} THEN 0 ELSE CHOOSE n \in last : \A m \in last : m <= n

NextFifo ==
    \/ \E s \in StudentIds : Ids = {} /\ show_login(s)
    \/ \E r \in {Turn}, c \in {Appended + 1} :
            Appended < MaxAppends /\ save_message(r, c)
    \/ \E i \in {sessions[d].session_id : d \in Ids}, r \in {Turn}, c \in {Appended + 1} :
            Appended < MaxAppends /\ add_to_conversation_history(i, r, c)

SpecFifo == Init /\ [][NextFifo]_vars

----------------------------------------------------------------------------
(* The persistence layer on its own: MongoDBManager's session methods      *)

NextStore ==
    \/ \E i \in KnownIds, c \in Summaries : update_session(i, c)
    \/ \E i \in KnownIds, r \in {Turn}, c \in Contents :
            ConvRoom(MaxConv) /\ add_to_conversation_history(i, r, c)
    \/ \E i \in KnownIds : clear_conversation_history(i)
    \/ \E i \in KnownIds : db_get_session(i)
    \/ Tick
    \/ TtlMonitor

SpecStore == Init /\ [][NextStore]_vars

----------------------------------------------------------------------------
(* The page of one student talking to the engine                           *)

NextEngine ==
    \/ \E s \in StudentIds : show_login(s)
    \/ \E r \in {Turn}, c \in Contents : ConvRoom(MaxConv) /\ save_message(r, c)
    \/ \E q \in Questions, r \in ModelReplies : get_exam_buddy_response(q, r)
    \/ \E c \in Summaries : handle_logout(c)
    \/ Tick
    \/ TtlMonitor

SpecEngine == Init /\ [][NextEngine]_vars

----------------------------------------------------------------------------
(* The profile collection of one student                                   *)

\* the model's reply, which no step of the collection asks for
NoReply == [raised |-> TRUE, text |-> ""]

NextProfile ==
    \/ \E s \in StudentIds : show_login(s)
    \/ \E p \in ProfileInputs :
          /\ ~user_info.profile_complete
          /\ Len(messages) < 2 * MaxTyped
          /\ chat_input(p, NoReply)

SpecProfile == Init /\ [][NextProfile]_vars

----------------------------------------------------------------------------
(* The first prompt of the collection: the exam                            *)

NextExam ==
    \/ \E s \in StudentIds : show_login(s)
    \/ \E p \in ExamInputs :
          /\ user_info.exam_type = ""
          /\ Len(messages) < 2 * MaxExams
          /\ chat_input(p, NoReply)

SpecExam == Init /\ [][NextExam]_vars

----------------------------------------------------------------------------
(* The profile collection on the inputs of the spec's scenario A, typed in *)
(* any order                                                               *)

NextScenario ==
    \/ \E s \in StudentIds : show_login(s)
    \/ \E p \in Range(ScenarioA) :
          /\ ~user_info.profile_complete
          /\ Len(messages) < 2 * Len(ScenarioA)
          /\ chat_input(p, NoReply)

SpecScenario == Init /\ [][NextScenario]_vars

----------------------------------------------------------------------------
(* The chat of one student, who types answers and questions at any time    *)

\* The conditions under which process_user_input accepts what was typed: a
\* known exam, at least one subject, a number from 0 to 100.
ValidAnswer(U, prompt) ==
    IF U.exam_type = "" THEN ExamOf[prompt].valid
    ELSE IF U.awaiting_subjects THEN SubjectsOf[prompt] # << >>
    ELSE IF U.awaiting_marks
    THEN FloatOf[prompt].ok /\ InRange(FloatOf[prompt])
    ELSE FALSE

\* the answers rejected so far: each one was answered with a re-prompt
Rejected(M) ==
    Cardinality({i \in DOMAIN M :
                    M[i].content \in {ExamRePrompt, SubjectsRePrompt, MarksRePrompt}})

\* the student answers the pending question with an answer that is accepted
answer_valid(p) ==
    /\ ~user_info.profile_complete
    /\ ValidAnswer(user_info, p)
    /\ chat_input(p, NoReply)

\* the student answers: with something the pending question accepts or,
\* a bounded number of times, with something it does not
answer(p) ==
    /\ ~user_info.profile_complete
    /\ ValidAnswer(user_info, p) \/ Rejected(messages) < MaxInvalid
    /\ chat_input(p, NoReply)

NextFlow ==
    \/ \E s \in StudentIds : show_login(s)
    \/ \E p \in ProfileInputs : answer(p)

\* The student goes on answering: a valid answer, possible at every step of
\* the flow, is eventually given.
SpecFlow ==
    Init /\ [][NextFlow]_vars /\ WF_vars(\E p \in ProfileInputs : answer_valid(p))

\* The page as a visitor uses it: any text in the login form, answers and
\* questions in the chat, the logout button, and time passing.
NextAuth ==
    \/ \E s \in StudentInputs : show_login(s)
    \/ \E p \in ChatInputs, r \in ModelReplies :
          /\ user_info.profile_complete \/ Len(messages) < 2 * MaxTyped
          /\ ConvRoom(2 * MaxAsked)
          /\ llm_calls < MaxCalls
          /\ chat_input(p, r)
    \/ \E c \in Summaries : handle_logout(c)
    \/ Tick
    \/ TtlMonitor

SpecAuth == Init /\ [][NextAuth]_vars

\* The page when another student, one who uses another browser, has logged
\* in before and has a question stored: login's insert with the ObjectId
\* before FirstOid, then save_message's append.
InitSave ==
    /\ sessions = (FirstOid - 1) :>
          [BareDoc EXCEPT !.session_id = GeneratedSid(FirstOid - 1),
                          !.student_id = OidRef(2),
                          !.created_at = 0,
                          !.last_activity = 0,
                          !.expires_at = SESSION_TTL_DAYS,
                          !.conversation = <<Message("user", "explain time management")>>]
    /\ now = 0
    /\ nextOid = FirstOid
    /\ ui = InitialUi
    /\ session_store = << >>
    /\ ret = Called("init", NoId, FALSE)
    /\ saved = NoSaved
    /\ user_info = EmptyUserInfo
    /\ messages = << >>
    /\ students = [s \in StudentIds |-> PriorMarks]
    /\ llm_calls = 0
    /\ llm_io = NoInvocation
    /\ alerts = << >>
    /\ outcome = NoOutcome
    /\ threads = [t \in Threads |-> Idle]
    /\ objects = << >>

NextSave ==
    \/ \E s \in StudentIds : show_login(s)
    \/ \E p \in ChatInputs, r \in ModelReplies :
          /\ user_info.profile_complete \/ Len(messages) < 2 * MaxTyped
          /\ ConvRoom(2 * MaxAsked)
          /\ llm_calls < MaxCalls
          /\ chat_input(p, r)
    \/ \E c \in Summaries : handle_logout(c)
    \/ Tick
    \/ TtlMonitor

SpecSave == InitSave /\ [][NextSave]_vars

NextChat ==
    \/ \E s \in StudentIds : show_login(s)
    \/ \E p \in ChatInputs, r \in ModelReplies :
          /\ user_info.profile_complete \/ Len(messages) < 2 * MaxTyped
          /\ ConvRoom(2 * MaxAsked)
          /\ llm_calls < MaxCalls
          /\ chat_input(p, r)
    \/ \E c \in Summaries : handle_logout(c)

SpecChat == Init /\ [][NextChat]_vars

----------------------------------------------------------------------------
(* The questions of one student, who first answers the profile's prompts   *)

NextAsk ==
    \/ \E s \in StudentIds : show_login(s)
    \/ \E p \in ProfileAnswers :
          /\ ~user_info.profile_complete
          /\ Len(messages) < 2 * MaxTyped
          /\ chat_input(p, NoReply)
    \/ \E q \in AskInputs, r \in ModelReplies :
          /\ user_info.profile_complete
          /\ ConvRoom(2 * MaxTurns)
          /\ llm_calls < MaxCalls
          /\ chat_input(q, r)
    \/ \E c \in Summaries : handle_logout(c)

SpecAsk == Init /\ [][NextAsk]_vars

----------------------------------------------------------------------------
(* The questions of one student while the store and the model may fail      *)

\* the model answers with an empty or a whitespace-only text
BlankReplies == {[raised |-> FALSE, text |-> ""], [raised |-> FALSE, text |-> "  "]}

NextFault ==
    \/ \E s \in StudentIds, import_fails \in BOOLEAN : show_login_under(s, import_fails)
    \/ \E p \in ProfileAnswers :
          /\ ~user_info.profile_complete
          /\ Len(messages) < 2 * MaxTyped
          /\ chat_input(p, NoReply)
    \/ \E q \in FaultQuestions, r \in ModelReplies \cup BlankReplies, f \in Faults :
          /\ user_info.profile_complete
          /\ ConvRoom(2 * MaxFaultTurns)
          /\ llm_calls < MaxCalls
          /\ chat_turn(q, r, f)
    \/ \E c \in Summaries : handle_logout(c)

SpecFault == Init /\ [][NextFault]_vars

----------------------------------------------------------------------------
(* exam_buddy.clear_session_history and the in-process history map          *)

\* clear_session_history(session_id): del _session_store[session_id] when
\* the entry is there, nothing otherwise
Cleared(store, session_id) ==
    [k \in DOMAIN store \ {session_id} |-> store[k]]

clear_session_history(session_id) ==
    /\ session_store' = Cleared(session_store, session_id)
    /\ ret' = Called("clear_session_history", session_id,
                     session_id \in DOMAIN session_store)
    /\ UNCHANGED <<sessions, now, nextOid, ui, saved>>
    /\ UNCHANGED pageVars

NextHistory ==
    \/ \E s \in StudentIds : show_login(s)
    \/ \E q \in FaultQuestions, r \in ModelReplies : get_exam_buddy_response(q, r)
    \/ \E c \in Summaries : handle_logout(c)
    \/ \E i \in KnownIds : clear_session_history(i)
    \/ Tick
    \/ TtlMonitor

SpecHistory == Init /\ [][NextHistory]_vars

----------------------------------------------------------------------------
(* Reruns of the page during the profile collection                         *)

\* main() run for an authenticated user with nothing typed: the prompt
\* selection may add a prompt to the messages
rerun ==
    /\ ui.is_authenticated
    /\ messages' = WithPrompt(user_info, messages)
    /\ alerts' = PageAlerts
    /\ ret' = Called("rerun", NoId, messages' # messages)
    /\ UNCHANGED <<sessions, now, nextOid, ui, session_store, saved, user_info,
                   students, llm_calls, llm_io, outcome, threads, objects>>

NextRerun ==
    \/ \E s \in StudentIds : show_login(s)
    \/ rerun
    \/ \E p \in ProfileInputs :
          /\ ~user_info.profile_complete
          /\ Len(messages) < 2 * MaxReruns
          /\ chat_input(p, NoReply)
    \/ \E c \in Summaries : handle_logout(c)

SpecRerun == Init /\ [][NextRerun]_vars

----------------------------------------------------------------------------
(* auth.get_student, and the persistence and auth calls when the store      *)
(* raises                                                                   *)

\* the outcome of get_student(session_id) on the collection S: the session
\* is the one auth.get_session returns, whose student_id is str() of the
\* stored value; ObjectId() of it raises for str(None) and for a malformed
\* id, and the except clause returns None.  student is the _id of the
\* student returned, NoId for None.
GetStudentOutcome(S, session_id) ==
    LET g == GetSessionOutcome(S, session_id)
        ref == S[g.id].student_id
    IN
    IF session_id = NoId THEN [sessions |-> S, student |-> NoId]
    ELSE IF ~g.ok THEN [sessions |-> g.sessions, student |-> NoId]
    ELSE IF ref = MissingRef THEN [sessions |-> g.sessions, student |-> NoId]
    ELSE IF ref = NullRef \/ ~ObjectIdIsValid(ref.val)
    THEN [sessions |-> g.sessions, student |-> NoId]
    ELSE [sessions |-> g.sessions,
          student |-> IF StudentFound(ref.val) THEN ref.val ELSE NoId]

get_student(session_id) ==
    LET r == GetStudentOutcome(sessions, session_id) IN
    /\ sessions' = r.sessions
    /\ ret' = Called("get_student", session_id, r.student # NoId)
    /\ outcome' = [Ended("get_student", {}, FALSE,
                         IF r.student = NoId THEN "None" ELSE "student")
                      EXCEPT !.student = r.student]
    /\ UNCHANGED <<now, nextOid, ui, session_store, saved, user_info, messages,
                   students, llm_calls, llm_io, alerts, threads, objects>>

\* the operations of MongoDBManager (db_get_session is its get_session) and
\* of auth, and whether the store calls of each are inside a try block
\* whose except clause catches Exception
CatchesStoreError ==
    [create_session |-> FALSE, db_get_session |-> FALSE,
     delete_session |-> FALSE, save_session |-> FALSE,
     update_session |-> TRUE, get_conversation_history |-> TRUE,
     add_to_conversation_history |-> TRUE,
     login |-> TRUE, get_session |-> TRUE, get_student |-> TRUE,
     ensure_session_exists |-> TRUE, logout |-> TRUE]

\* what the except clause of each returns
OnStoreError ==
    [create_session |-> "", db_get_session |-> "",
     delete_session |-> "", save_session |-> "",
     update_session |-> "False", get_conversation_history |-> "[]",
     add_to_conversation_history |-> "None",
     login |-> "None", get_session |-> "None", get_student |-> "None",
     ensure_session_exists |-> "False", logout |-> "False"]

StoreOperations == DOMAIN CatchesStoreError

\* the operation op called while the store raises on its first call: nothing
\* is written; the error is caught and the except clause's value returned,
\* or it propagates to the caller
store_error(op) ==
    /\ outcome' = Ended(op, {"store"}, ~CatchesStoreError[op], OnStoreError[op])
    /\ ret' = Called(op, NoId, FALSE)
    /\ UNCHANGED <<sessions, now, nextOid, ui, session_store, saved, user_info,
                   messages, students, llm_calls, llm_io, alerts, threads,
                   objects>>

NextPersist ==
    \/ \E s \in StudentInputs, c \in {NoId} \cup ExternalIds : login(s, c)
    \/ \E i \in KnownIds, s \in {NoId} \cup StudentIds : ensure_session_exists(i, s)
    \/ \E i \in {NoId} \cup KnownIds : get_student(i)
    \/ \E op \in StoreOperations : store_error(op)
    \/ Tick

SpecPersist == Init /\ [][NextPersist]_vars

----------------------------------------------------------------------------
(* Two requests interleaved: each store call and each statement on the      *)
(* history map is one step, and the other request may run between two       *)

\* a request that is at pc with the local variables in locals
At(pc, locals) == [pc |-> pc] @@ locals

\* what neither request's steps change besides the store and its own locals
raceFrame == <<ui, saved, user_info, messages, students, llm_calls, llm_io,
               alerts, outcome>>

\* auth.login up to and including its find_one of the existing session:
\* the checks of the student id, then existing_session as read now
login_find(t, student_id) ==
    /\ threads[t].pc = "idle"
    /\ threads' =
          [threads EXCEPT ![t] =
              IF student_id = NoId \/ ~ObjectIdIsValid(student_id)
                 \/ ~StudentFound(student_id)
              THEN At("login_done", [student_id |-> student_id, result |-> NoId])
              ELSE At("login_found",
                      [student_id |-> student_id,
                       existing_session |->
                          IF ExistingSession(sessions, student_id) = {} THEN NoId
                          ELSE CHOOSE d \in ExistingSession(sessions, student_id) : TRUE])]
    /\ ret' = Called("login_find", student_id, FALSE)
    /\ UNCHANGED <<sessions, now, nextOid, session_store, objects>>
    /\ UNCHANGED raceFrame

\* auth.login from there: update_one on the session it read, or insert_one
\* of a new one.  The unique index on student_id rejects the insert when a
\* session of the student has been stored since: DuplicateKeyError, which
\* the except clause turns into None.  Nothing is tried again.
login_write(t) ==
    LET student_id == threads[t].student_id
        e == threads[t].existing_session
        updated == IF e \in Ids
                   THEN [sessions EXCEPT
                            ![e].session_id = IF @ # NoId THEN @ ELSE GeneratedSid(e),
                            ![e].last_activity = now,
                            ![e].expires_at = now + SESSION_TTL_DAYS]
                   ELSE sessions
        doc == [BareDoc EXCEPT !.session_id = GeneratedSid(nextOid),
                               !.student_id = OidRef(student_id),
                               !.created_at = now,
                               !.last_activity = now,
                               !.expires_at = now + SESSION_TTL_DAYS]
        inserted == Insert(sessions, nextOid, doc)
    IN
    /\ threads[t].pc = "login_found"
    /\ IF e # NoId
       THEN /\ sessions' = updated
            /\ threads' = [threads EXCEPT ![t] =
                              At("login_done", [student_id |-> student_id, result |-> e])]
            /\ ret' = Called("login", student_id, TRUE)
            /\ UNCHANGED nextOid
       ELSE IF UniqueOk(inserted)
       THEN /\ DocsLeft > 0
            /\ sessions' = inserted
            /\ nextOid' = nextOid + 1
            /\ threads' = [threads EXCEPT ![t] =
                              At("login_done", [student_id |-> student_id,
                                                result |-> nextOid])]
            /\ ret' = Called("login", student_id, TRUE)
       ELSE /\ threads' = [threads EXCEPT ![t] =
                              At("login_done", [student_id |-> student_id,
                                                result |-> NoId])]
            /\ ret' = Called("login", student_id, FALSE)
            /\ UNCHANGED <<sessions, nextOid>>
    /\ UNCHANGED <<now, session_store, objects>>
    /\ UNCHANGED raceFrame

\* the request has returned; the next one may start
returned(t) ==
    /\ threads[t].pc = "login_done"
    /\ threads' = [threads EXCEPT ![t] = Idle]
    /\ ret' = Called("returned", NoId, FALSE)
    /\ UNCHANGED <<sessions, now, nextOid, session_store, objects>>
    /\ UNCHANGED raceFrame

NextLoginRace ==
    \/ \E t \in Threads, s \in StudentInputs : login_find(t, s)
    \/ \E t \in Threads : login_write(t)
    \/ \E t \in Threads : returned(t)
    \/ Tick

SpecLoginRace == Init /\ [][NextLoginRace]_vars

\* what the two requests save
RaceContents == {"first", "second"}

\* app.save_message up to and including its find_one: the session as read
\* now, any of the documents the filter selects, and its conversation
save_find(t, role, content) ==
    /\ threads[t].pc = "idle"
    /\ ui.session_id # NoId
    /\ \E d \in IF MatchingSession(sessions) = {} THEN {NoId}
                ELSE MatchingSession(sessions) :
          threads' =
              [threads EXCEPT ![t] =
                  At("save_found",
                     [message |-> Message(role, content), session |-> d,
                      current_messages |-> IF d = NoId THEN << >>
                                           ELSE sessions[d].conversation])]
    /\ ret' = Called("save_find", NoId, FALSE)
    /\ UNCHANGED <<sessions, now, nextOid, session_store, objects>>
    /\ UNCHANGED raceFrame

\* app.save_message from there: the message is appended to the conversation
\* it read, trimmed to the last 80, and the whole list is written with $set
\* on the document's _id; with no session read, a document is inserted
\* (DuplicateKeyError is caught and False returned)
save_write(t) ==
    LET d == threads[t].session
        written == Trimmed(threads[t].current_messages, threads[t].message)
        doc == [BareDoc EXCEPT !.session_id = ui.session_id,
                               !.student_id = UiStudentRef,
                               !.created_at = now,
                               !.last_activity = now,
                               !.expires_at = now + SESSION_TTL_DAYS,
                               !.conversation = <<threads[t].message>>]
        inserted == Insert(sessions, nextOid, doc)
        done(ok) == [threads EXCEPT ![t] =
                        At("save_done", [message |-> threads[t].message,
                                         result |-> ok])]
    IN
    /\ threads[t].pc = "save_found"
    /\ IF d # NoId
       THEN /\ sessions' = IF d \in Ids
                           THEN [sessions EXCEPT
                                    ![d].conversation = written,
                                    ![d].last_activity = now,
                                    ![d].expires_at = now + SESSION_TTL_DAYS]
                           ELSE sessions
            /\ threads' = done(TRUE)
            /\ ret' = Called("save_message", NoId, TRUE)
            /\ UNCHANGED nextOid
       ELSE IF UniqueOk(inserted) /\ DocsLeft > 0
       THEN /\ sessions' = inserted
            /\ nextOid' = nextOid + 1
            /\ threads' = done(TRUE)
            /\ ret' = Called("save_message", NoId, TRUE)
       ELSE /\ threads' = done(FALSE)
            /\ ret' = Called("save_message", NoId, FALSE)
            /\ UNCHANGED <<sessions, nextOid>>
    /\ UNCHANGED <<now, session_store, objects>>
    /\ UNCHANGED raceFrame

\* one student, two requests of the same page: each saves one message
NextSaveRace ==
    \/ \E s \in StudentIds : threads = [t \in Threads |-> Idle] /\ show_login(s)
    \/ \E t \in Threads, r \in Roles, c \in RaceContents :
          ui.is_authenticated /\ save_find(t, r, c)
    \/ \E t \in Threads : save_write(t)
    \/ Tick

SpecSaveRace == Init /\ [][NextSaveRace]_vars

\* the session ids the two requests ask the history of
HistoryKeys == {FirstOid, FirstOid + 1}

\* objects: the ChatMessageHistory objects made so far (heap: object ->
\* the session id it was made for and its messages) and the object the map
\* _session_store holds for each session id (at).  session_store stays the
\* map as its reader sees it: session id -> the messages of its object.
NoObjects == [heap |-> << >>, at |-> << >>]

Heap == IF objects = << >> THEN NoObjects ELSE objects

\* get_session_history: the test `session_id not in _session_store`
history_check(t, session_id) ==
    /\ threads[t].pc = "idle"
    /\ threads' = [threads EXCEPT ![t] =
                      At("history_checked",
                         [session_id |-> session_id,
                          missing |-> session_id \notin DOMAIN Heap.at])]
    /\ ret' = Called("history_check", session_id, FALSE)
    /\ UNCHANGED <<sessions, now, nextOid, session_store, objects>>
    /\ UNCHANGED raceFrame

\* get_session_history from there: when the test found no entry, a new
\* ChatMessageHistory is stored under the session id, replacing whatever is
\* there by now; the object the map holds is returned
history_get(t) ==
    LET session_id == threads[t].session_id
        o == Cardinality(DOMAIN Heap.heap) + 1
        holding(x) == [threads EXCEPT ![t] =
                          At("history_held", [session_id |-> session_id,
                                              history |-> x])]
    IN
    /\ threads[t].pc = "history_checked"
    /\ IF threads[t].missing
       THEN /\ objects' = [heap |-> Heap.heap @@ (o :> [session_id |-> session_id,
                                                       messages |-> << >>]),
                           at |-> (session_id :> o) @@ Heap.at]
            /\ session_store' = (session_id :> << >>) @@ session_store
            /\ threads' = holding(o)
       ELSE /\ threads' = holding(Heap.at[session_id])
            /\ UNCHANGED <<objects, session_store>>
    /\ ret' = Called("get_session_history", session_id, threads[t].missing)
    /\ UNCHANGED <<sessions, now, nextOid>>
    /\ UNCHANGED raceFrame

\* the caller records a message through the object it was given
\* (history.add_message)
history_add(t, content) ==
    LET session_id == threads[t].session_id
        o == threads[t].history
        added == Append(Heap.heap[o].messages, Message("human", content))
    IN
    /\ threads[t].pc = "history_held"
    /\ objects' = [Heap EXCEPT !.heap[o].messages = added]
    /\ session_store' = IF Heap.at[session_id] = o
                        THEN [session_store EXCEPT ![session_id] = added]
                        ELSE session_store
    /\ threads' = [threads EXCEPT ![t] = At("history_done", [session_id |-> session_id])]
    /\ ret' = Called("add_message", session_id, TRUE)
    /\ UNCHANGED <<sessions, now, nextOid>>
    /\ UNCHANGED raceFrame

NextHistoryRace ==
    \/ \E t \in Threads, i \in HistoryKeys : history_check(t, i)
    \/ \E t \in Threads : history_get(t)
    \/ \E t \in Threads, c \in RaceContents : history_add(t, c)

SpecHistoryRace == Init /\ [][NextHistoryRace]_vars

----------------------------------------------------------------------------
(* Properties *)

\* the session records of student s: the link is the student's id, stored
\* as an ObjectId or as a string
RecordsOf(S, s) ==
    {d \in DOMAIN S : S[d].student_id.tag \in {"oid", "str"} /\ S[d].student_id.val = s}

\* the record has an expiry and it is later than now
Live(doc) == doc.expires_at # Absent /\ doc.expires_at > now

\* current session ids a caller of login passes
CurrentIds == {NoId} \cup ExternalIds

\* a session id that names no record
OtherId == CHOOSE i \in 91..99 : i \notin KnownIds

\* C1 (as stated; the code breaks it): a stored conversation never has more
\* than 80 entries, and once more than 80 messages have been appended it
\* holds exactly the last 80 of them, in the order they were appended.
C1_FifoEviction ==
    \A d \in Ids :
        LET conv == sessions[d].conversation IN
        /\ Len(conv) <= MAX_MESSAGES
        /\ Appended > MAX_MESSAGES =>
              /\ Len(conv) = MAX_MESSAGES
              /\ \A k \in 1..MAX_MESSAGES :
                    conv[k].content = Appended - MAX_MESSAGES + k

\* C2 (as stated; the code breaks it): in every reachable state a student
\* has at most one session record that has not expired.
C2_OneLiveSessionPerStudent ==
    \A s \in StudentIds :
        Cardinality({d \in RecordsOf(sessions, s) : ~Expired(sessions[d])}) <= 1

\* C3 (as stated; the code breaks it): from every reachable state, two
\* logins in a row of the same student, with the same current session id
\* and no time passing, return the same session identifier, and after the
\* second the student has exactly one session record.
C3_SecondLoginReuses ==
    \A s \in StudentIds, c \in CurrentIds :
        LET r1 == LoginOutcome(sessions, nextOid, s, c)
            r2 == LoginOutcome(r1.sessions, nextOid + r1.inserted, s, c)
        IN r1.ok =>
              /\ r2.ok
              /\ r2.session_id = r1.session_id
              /\ Cardinality(RecordsOf(r2.sessions, s)) = 1

\* C4: a login (called directly or by the login form) with an empty or
\* malformed student id, or with a well-formed id of no student, returns
\* None and leaves the collection and the ObjectId generator as they were.
C4_RejectedLoginChangesNothing ==
    [][(ret'.op \in {"login", "show_login"} /\ ret'.arg \notin StudentIds)
          => (~ret'.ok /\ sessions' = sessions /\ nextOid' = nextOid)]_vars

\* a login with a well-formed id of no student was refused while a session
\* record was stored
C4_Witness ==
    /\ ret.op = "login"
    /\ ret.arg \notin StudentIds /\ ObjectIdIsValid(ret.arg)
    /\ ~ret.ok
    /\ Ids # {}

\* C5 (as stated; the code breaks it): when a student already has a session
\* record, a login that returns a value returns one of the student's
\* records, leaves conversation, context, student link and created_at of
\* every record of the student as they were, and returns the stored
\* conversation and context of the record it resumes.
C5_LoginResumesStoredRecord ==
    \A s \in StudentIds, c \in CurrentIds :
        LET mine == RecordsOf(sessions, s)
            r == LoginOutcome(sessions, nextOid, s, c)
        IN (mine # {} /\ r.ok) =>
              /\ r.id \in mine
              /\ \A d \in mine :
                    /\ r.sessions[d].conversation = sessions[d].conversation
                    /\ r.sessions[d].context = sessions[d].context
                    /\ r.sessions[d].student_id = sessions[d].student_id
                    /\ r.sessions[d].created_at = sessions[d].created_at
              /\ r.conversation = sessions[r.id].conversation
              /\ r.context = sessions[r.id].context

\* C6 (as stated; the code breaks it): every step that inserts or changes a
\* session record leaves the record's expires_at at now + 7 days.
C6_EveryWriteRefreshesExpiry ==
    [][\A d \in DOMAIN sessions' :
          (d \notin Ids \/ sessions'[d] # sessions[d])
              => sessions'[d].expires_at = now + SESSION_TTL_DAYS]_vars

\* C7 (as stated; the code breaks it): for every identifier, auth.get_session
\* (which looks the identifier up as _id and as session_id) and
\* MongoDBManager.get_session (which looks it up as session_id) return None
\* and write nothing when no live record has the identifier, and otherwise
\* return a live record with the identifier whose last_activity is now
\* afterwards.
C7_GetSessionLiveOnly ==
    \A i \in KnownIds :
        LET live == {d \in BySessionIdOrId(sessions, i) : Live(sessions[d])}
            g == GetSessionOutcome(sessions, i)
            dblive == {d \in BySessionId(sessions, i) : Live(sessions[d])}
            f == DbGetSessionFound(sessions, i)
        IN /\ live = {} => (~g.ok /\ g.sessions = sessions)
           /\ live # {} =>
                 (g.ok /\ g.id \in live /\ g.sessions[g.id].last_activity = now)
           /\ dblive = {} => f = {}
           /\ dblive # {} =>
                 (f # {} /\ \A d \in f : d \in dblive /\ sessions[d].last_activity = now)

C9_LogoutKeepsRecord ==
    [][ret'.op \in {"logout", "handle_logout"} =>
          \A d \in Ids :
              /\ d \in DOMAIN sessions'
              /\ sessions'[d].student_id = sessions[d].student_id
              /\ \A s \in StudentIds :
                    (d \in RecordsOf(sessions, s) /\ sessions'[d] # sessions[d])
                        => LoginOutcome(sessions', nextOid', s, NoId).id = d]_vars

\* C10 (as stated): after handle_logout has stored the summary c for a
\* student and no other context write has happened, a login of the student
\* returns the context c and the engine reads the context c from the record.
C10_ContextRoundTrip ==
    saved.student_id # NoId =>
        /\ LoginOutcome(sessions, nextOid, saved.student_id, NoId).context = saved.context
        /\ SessionContext(sessions, saved.id) = saved.context

\* C10 (amended): the same while the record the summary was stored in is
\* still in the collection; the engine reads it while the record has not
\* expired.
C10_ContextRoundTripAmended ==
    saved.id \in Ids =>
        /\ sessions[saved.id].context = saved.context
        /\ \A c \in CurrentIds :
              LET r == LoginOutcome(sessions, nextOid, saved.student_id, c) IN
              r.ok => (r.id = saved.id /\ r.context = saved.context)
        /\ Live(sessions[saved.id]) =>
              SessionContext(sessions, saved.id) = saved.context

\* the student has logged in again after the summary was stored, and the
\* record that holds it is live
C10_Witness ==
    /\ saved.id \in Ids
    /\ ret.op \in {"login", "show_login"} /\ ret.ok /\ ret.arg = saved.student_id
    /\ Live(sessions[saved.id])
    /\ sessions[saved.id].context = saved.context

\* the subject/mark pairs the flow has collected
Collected(U) ==
    {[subject |-> x, marks |-> U.subject_marks[x]] : x \in DOMAIN U.subject_marks}

\* C11 (as stated; the code breaks it): once the flow has accepted the mark
\* of the last listed subject of an authenticated student, the marks of the
\* student's record are exactly the collected subject/mark pairs.
C11_MarksReplaceRecord ==
    (ui.is_authenticated /\ user_info.profile_complete) =>
        Range(students[ui.student_id]) = Collected(user_info)

\* the contents of the messages the user typed, in order
RECURSIVE UserInputs(_)
UserInputs(M) ==
    IF M = << >> THEN << >>
    ELSE IF M[1].role = "user" THEN <<M[1].content>> \o UserInputs(Tail(M))
    ELSE UserInputs(Tail(M))

\* C12: when the inputs typed since the page's user_info was empty are
\* "NEET", "Physics, Chemistry, Biology", "skip", "70", "80", "90" in this
\* order, profile_complete is true and the last message is the assistant's
\* welcome message for NEET, which lists Physics, Chemistry and Biology.
C12_ScenarioACompletes ==
    UserInputs(messages) = ScenarioA =>
        /\ user_info.profile_complete
        /\ messages[Len(messages)] =
              Message("assistant", WelcomeMessage("NEET", "Physics, Chemistry, Biology"))
        /\ \A x \in {"Physics", "Chemistry", "Biology"} :
              Contains(x, messages[Len(messages)].content)

\* the six inputs of the scenario have been typed in its order
C12_Witness ==
    /\ ui.is_authenticated
    /\ UserInputs(messages) = ScenarioA
    /\ DOMAIN user_info.subject_marks = {"physics", "chemistry", "biology"}

\* C13 (as stated; the code breaks it): the flow asks for the exam, then the
\* subjects, then the free-text context, then one mark per subject in the
\* order listed: subjects are asked for only once the exam is known, marks
\* only once the context prompt has been shown and answered, and the mark
\* asked for is the one of the next listed subject.
C13_FixedOrder ==
    /\ user_info.awaiting_subjects => user_info.exam_type # ""
    /\ user_info.awaiting_marks =>
          /\ user_info.pending_subjects # << >>
          /\ \E i \in 1..Len(messages) :
                /\ messages[i] = Message("assistant", ContextPrompt)
                /\ \E j \in (i + 1)..Len(messages) : messages[j].role = "user"
          /\ Said(messages,
                  MarksQuestion(user_info.pending_subjects[
                                    user_info.current_subject_index + 1]))

\* what is typed is not a mark: float() raises on it, or its value is not
\* a number of [0, 100]
NotAMark(prompt) ==
    LET f == FloatOf[prompt] IN
    \/ ~f.ok
    \/ f.kind # "num"
    \/ f.neg /\ f.num > 0
    \/ ~f.neg /\ f.num > 100 * f.den

\* process_user_input(ret'.arg) ran while marks were being collected
MarksAnswered ==
    /\ ret'.op = "process_user_input"
    /\ user_info.exam_type # ""
    /\ ~user_info.awaiting_subjects
    /\ user_info.awaiting_marks

Listed ==
    {[name |-> StrLower(MEDICAL_EXAMS[i].keywords[j]),
      exam |-> MEDICAL_EXAMS[i].exam, category |-> "medical"] :
        <<i, j>> \in {x \in (1..Len(MEDICAL_EXAMS)) \X (1..6) :
                        x[2] <= Len(MEDICAL_EXAMS[x[1]].keywords)}}
    \cup
    {[name |-> StrLower(ENGINEERING_EXAMS[i].keywords[j]),
      exam |-> ENGINEERING_EXAMS[i].exam, category |-> "engineering"] :
        <<i, j>> \in {x \in (1..Len(ENGINEERING_EXAMS)) \X (1..6) :
                        x[2] <= Len(ENGINEERING_EXAMS[x[1]].keywords)}}

\* the listings an input is equal to ignoring case, and those it contains
ListingsOf == [p \in Typed |-> {l \in Listed : l.name = StrLower(p)}]
ListingsIn == [p \in Typed |-> {l \in Listed : Contains(l.name, StrLower(p))}]

\* C15 (as stated; the code breaks it): when an input that is, ignoring
\* case, a name or synonym listed in the exam tables is typed as the exam,
\* is_valid_exam returns valid with the name of an exam that lists it and
\* the category of that exam's table, and the flow records both; when the
\* input contains no listed name or synonym it returns invalid with an
\* empty category and no exam is recorded.
C15_CanonicalNameAndCategory ==
    [][(ret'.op = "process_user_input" /\ user_info.exam_type = "") =>
          LET p == ret'.arg
              r == ExamOf[p]
          IN
          /\ ListingsOf[p] # {} =>
                /\ r.valid
                /\ \E l \in ListingsOf[p] :
                      /\ r.exam = l.exam /\ r.category = l.category
                      /\ user_info'.exam_type = l.exam
                      /\ user_info'.exam_category = l.category
          /\ ListingsIn[p] = {} =>
                /\ ~r.valid /\ r.category = ""
                /\ user_info'.exam_type = "" /\ user_info'.exam_category = ""]_vars

\* nothing is left of the input after splitting on commas and trimming
NoSubjectIn ==
    [p \in Typed |-> \A i \in 1..Len(p) : CharAt(p, i) \in Whitespace \cup {","}]

\* C16: when the exam is asked for and the input contains no name or
\* synonym of the tables, and when the subjects are asked for and nothing
\* is left of the input after splitting on commas and trimming, the flow
\* answers with its re-prompt for that step and every field of the
\* UserInfo (exam type, subjects, flags, index, marks) stays as it was.
C16_InvalidInputRePrompts ==
    [][ret'.op = "process_user_input" =>
          LET p == ret'.arg IN
          /\ (user_info.exam_type = "" /\ ListingsIn[p] = {}) =>
                /\ user_info' = user_info
                /\ Len(messages') >= Len(messages) + 2
                /\ messages'[Len(messages') - 1] = Message("user", p)
                /\ messages'[Len(messages')] = Message("assistant", ExamRePrompt)
          /\ (user_info.exam_type # "" /\ user_info.awaiting_subjects
                  /\ NoSubjectIn[p]) =>
                /\ user_info' = user_info
                /\ messages' = messages \o
                      <<Message("user", p),
                        Message("assistant",
                                "Please enter at least one valid subject name.")>>]_vars

\* "xyz" was re-prompted as an exam, then " , " as a subject list
C16_Witness ==
    /\ Said(messages, ExamRePrompt)
    /\ user_info.exam_type = "NEET" /\ user_info.awaiting_subjects
    /\ user_info.pending_subjects = << >>
    /\ ret = Called("process_user_input", " , ", FALSE)
    /\ messages[Len(messages)] =
          Message("assistant", "Please enter at least one valid subject name.")

\* the step takes a user input from the chat input
InputTaken ==
    ret'.op \in {"process_user_input", "get_response_async", "get_exam_buddy_response"}

\* C17: while profile_complete is false a user input goes to the profile
\* collection flow: it does not reach the engine, the model is not invoked
\* and the engine's histories stay as they were.  While profile_complete is
\* true a user input goes to the engine and the profile stays as it was.
\* Once true, profile_complete stays true until the page's state is
\* cleared by the logout.
C17_RoutedByProfileComplete ==
    [][/\ (InputTaken /\ ~user_info.profile_complete) =>
              /\ ret'.op = "process_user_input"
              /\ llm_calls' = llm_calls
              /\ session_store' = session_store
              /\ sessions' = sessions
       /\ (InputTaken /\ user_info.profile_complete) =>
              /\ ret'.op \in {"get_response_async", "get_exam_buddy_response"}
              /\ user_info' = user_info
              /\ messages'[Len(messages') - 1] = Message("user", ret'.arg)
       /\ (user_info.profile_complete /\ ~user_info'.profile_complete) =>
              ret'.op = "handle_logout"]_vars

\* three answers completed the profile, then a question was answered by
\* the model
C17_Witness ==
    /\ user_info.profile_complete
    /\ ret.op = "get_exam_buddy_response" /\ ret.ok
    /\ llm_calls = 1
    /\ UserInputs(messages) = <<"NEET", "physics", "70", "explain time management">>

\* a denylist keyword is in the question as typed, and in its filtered text
KeywordIn ==
    [q \in Typed |->
        \E k \in inappropriate_keywords : Contains(k, StrLower(q))]
KeywordInFiltered ==
    [q \in Typed |->
        \E k \in inappropriate_keywords :
            Contains(k, StrLower(filter_user_input(q)))]

\* the step hands the question ret'.arg to get_response_async
Asked == InputTaken /\ user_info.profile_complete

\* C18 (as stated; the code breaks it): when the topic guard rejects the
\* question (its filtered text holds a denylist keyword), the string
\* returned to the caller, which the page shows as the assistant's
\* message, is the fixed refusal of the topic guard.
C18_RefusalReturned ==
    [][(Asked /\ KeywordInFiltered[ret'.arg]) =>
          messages'[Len(messages')] = Message("assistant", TopicRefusal)]_vars

\* C19 (as stated): handling a question that contains a denylist keyword,
\* in any case of letters, makes no model invocation.
C19_NoInvocationOnKeyword ==
    [][(Asked /\ KeywordIn[ret'.arg]) => llm_calls' = llm_calls]_vars

\* C19 (amended): handling a question whose filtered text (what
\* filter_user_input returns for it: URLs and code spans removed, truncated
\* past 1000 characters) contains a denylist keyword, in any case of
\* letters, makes no model invocation.
C19_NoInvocationOnFilteredKeyword ==
    [][(Asked /\ KeywordInFiltered[ret'.arg]) => llm_calls' = llm_calls]_vars

\* "how to hack the exam" was asked after a question the model answered:
\* the count of invocations is still 1
C19_Witness ==
    /\ user_info.profile_complete
    /\ ret.op = "get_exam_buddy_response" /\ ~ret.ok
    /\ ret.arg = "how to hack the exam"
    /\ llm_calls = 1
    /\ Len(messages) >= 4
    /\ messages[Len(messages) - 3] = Message("user", "explain time management")
    /\ messages[Len(messages) - 2] = Message("assistant", "Plan your week.")

\* the user messages stored in the conversation of the page's session: the
\* documents save_message writes the page's messages to
StoredQuestions ==
    UNION {{sessions[d].conversation[k].content :
                k \in {i \in 1..Len(sessions[d].conversation) :
                          sessions[d].conversation[i].role = "user"}} :
           d \in MatchingSession(sessions)}

\* C20 (as stated; the code breaks it): when "what did I just ask" is asked
\* and the stored conversation of the session holds an earlier user
\* message, the reply contains such a message verbatim and the model is
\* not invoked.
C20_LastQuestionRecalled ==
    [][(Asked /\ ret'.arg = "what did I just ask" /\ StoredQuestions # {}) =>
          /\ \E m \in StoredQuestions :
                Contains(m, messages'[Len(messages')].content)
          /\ llm_calls' = llm_calls]_vars

----------------------------------------------------------------------------
(* Failures, the two conversation logs, the recap and the fallback          *)

\* the engine was called with the outcome recorded
EngineEnded == outcome.op = "get_exam_buddy_response"

\* C21 (as stated; refuted): get_exam_buddy_response never raises, and
\* whenever the session lookup, the chain or model invocation, or the
\* activity update failed in a call, the string returned is the apology.
C21_ApologyOnAnyFailure ==
    (EngineEnded /\ outcome.fault # {}) =>
        ~outcome.raised /\ outcome.value = EngineApology

\* C21 (amended): get_exam_buddy_response never raises; whenever the chain
\* or model invocation or the activity update failed in a call, the string
\* returned is the apology; when only the session lookup failed, the string
\* returned is the model's answer.
C21_ApologyOnChainOrUpdateFailure ==
    EngineEnded =>
        /\ ~outcome.raised
        /\ outcome.fault \cap {"chain", "model", "update"} # {} =>
              outcome.value = EngineApology
        /\ outcome.fault = {"lookup"} =>
              llm_io.invoked /\ outcome.value = llm_io.text

\* the lookup alone failed and the model's answer was returned; and, in
\* another call, the activity update failed and the apology was returned
C21_Witness ==
    /\ EngineEnded
    /\ outcome.fault = {"lookup"}
    /\ outcome.value = "Plan your week."
    /\ Len(messages) >= 2
    /\ messages[Len(messages)] = Message("assistant", "Plan your week.")

\* C22 (as stated; the code breaks it): no text shown to the student,
\* as an alert or as an assistant's message, contains the text of the
\* internal error.
C22_NoRawErrorShown ==
    /\ \A k \in 1..Len(alerts) : ~Contains(StoreError, alerts[k])
    /\ \A k \in 1..Len(messages) :
          messages[k].role = "assistant" => ~Contains(StoreError, messages[k].content)

\* a turn of the chat has just completed
TurnCompleted ==
    /\ ui.is_authenticated
    /\ ret.op \in {"get_exam_buddy_response", "get_response_async"}

\* the in-process history of the page's session, written with the roles of
\* the persisted conversation
InProcessLog ==
    LET h == WithHistory(session_store, ui.session_id)[ui.session_id] IN
    [k \in 1..Len(h) |->
        Message(IF h[k].role = "human" THEN "user" ELSE "assistant", h[k].content)]

\* C23 (as stated; the code breaks it): after every completed turn the
\* persisted conversation of the session and its in-process history hold
\* the same messages in the same order.
C23_LogsConsistent ==
    TurnCompleted =>
        \A d \in MatchingSession(sessions) :
            [k \in 1..Len(sessions[d].conversation) |->
                Message(sessions[d].conversation[k].role,
                        sessions[d].conversation[k].content)] = InProcessLog

\* the stored conversation of d as it was when the engine was called in
\* the step: the assistant's answer is saved after the call
StoredBeforeAnswer(d) ==
    SubSeq(sessions'[d].conversation, 1, Len(sessions'[d].conversation) - 1)

\* the model was invoked in the step
Invoked == llm_calls' = llm_calls + 1

\* C29 (as stated; the code breaks it): whenever the model is invoked for
\* a session whose stored conversation is non-empty, the context it is
\* handed holds a recap of exactly the last 3 stored messages (all of them
\* if fewer), in stored order.
C29_RecapOfLastThree ==
    [][Invoked =>
          \A d \in {x \in Ids : x \in MatchingSession(sessions')} :
              StoredBeforeAnswer(d) # << >> =>
                  llm_io'.recap = LastThree(StoredBeforeAnswer(d))]_vars

\* text.strip() is empty
Blank(text) == Strip(text) = ""

\* C30 (as stated; the code breaks it): whenever the model returns an
\* empty or whitespace-only text, the engine returns the fixed fallback
\* string.
C30_BlankReplaced ==
    [][(Invoked /\ ~llm_io'.raised /\ Blank(llm_io'.text)) =>
          outcome'.value = NotSure]_vars

----------------------------------------------------------------------------
(* Store errors and get_student                                             *)

\* the results that stand for "nothing": empty, False, None
EmptyResults == {"[]", "False", "None"}

\* C27 (as stated; the code breaks it): every persistence and auth
\* operation called while the store raises returns its empty, False or
\* None result and does not propagate the error.
C27_StoreErrorsNeverPropagate ==
    (outcome.op \in StoreOperations /\ outcome.fault = {"store"}) =>
        ~outcome.raised /\ outcome.value \in EmptyResults

\* the live sessions session_id identifies, by _id or by the session_id field
LiveSessions(session_id) ==
    {d \in Ids : /\ d = session_id \/ sessions[d].session_id = session_id
                 /\ sessions[d].expires_at # Absent
                 /\ sessions[d].expires_at > now}

\* the students the live sessions of session_id are linked to
LinkedStudents(session_id) ==
    {sessions[d].student_id.val :
        d \in {x \in LiveSessions(session_id) :
                  /\ sessions[x].student_id.tag \in {"oid", "str"}
                  /\ sessions[x].student_id.val \in StudentIds}}

\* C28 (as stated; the code breaks it): get_student(session_id) never
\* raises; it returns the Student linked to the session, and None when
\* the session is absent or expired, has no student link, or is linked to
\* no existing Student.
C28_GetStudentLinkedOrNone ==
    [][ret'.op = "get_student" =>
          /\ ~outcome'.raised
          /\ LinkedStudents(ret'.arg) = {} => outcome'.student = NoId
          /\ LinkedStudents(ret'.arg) # {} =>
                outcome'.student \in LinkedStudents(ret'.arg)]_vars

----------------------------------------------------------------------------
(* Interleaved requests                                                     *)

\* both requests have saved their message
BothSaved == \A t \in Threads : threads[t].pc = "save_done" /\ threads[t].result

\* C24 (as stated; the code breaks it): after two interleaved save_message
\* calls on the same session have completed, both messages are in the
\* stored conversation.
C24_NoLostAppend ==
    BothSaved =>
        \A t \in Threads :
            \E d \in MatchingSession(sessions) :
                \E k \in 1..Len(sessions[d].conversation) :
                    sessions[d].conversation[k] = threads[t].message

\* C25 (as stated; the code breaks it): two requests that hold the history
\* of the same session id hold the same object, and every message recorded
\* through any object made for a session id is in the history the map holds
\* for it.
C25_HistoryMapSafe ==
    /\ \A t1, t2 \in Threads :
          (/\ threads[t1].pc = "history_held"
           /\ threads[t2].pc = "history_held"
           /\ threads[t1].session_id = threads[t2].session_id) =>
              threads[t1].history = threads[t2].history
    /\ \A o \in DOMAIN Heap.heap :
          \A k \in 1..Len(Heap.heap[o].messages) :
              \E j \in 1..Len(session_store[Heap.heap[o].session_id]) :
                  session_store[Heap.heap[o].session_id][j] = Heap.heap[o].messages[k]

\* C26 (as stated; the code breaks it): a login that found no session of
\* the student and then loses the duplicate-key race to another login
\* returns the session the winner created.
C26_LoserReturnsWinnersSession ==
    [][\A t \in Threads :
          (/\ threads[t].pc = "login_found"
           /\ threads'[t].pc = "login_done"
           /\ threads[t].existing_session = NoId
           /\ ExistingSession(sessions, threads[t].student_id) # {}) =>
              threads'[t].result \in ExistingSession(sessions, threads[t].student_id)]_vars

----------------------------------------------------------------------------
(* The in-process history map                                               *)

\* a is a prefix of b
IsPrefix(a, b) == Len(a) <= Len(b) /\ SubSeq(b, 1, Len(a)) = a

\* C31: an entry of the in-process history map stays, with all its
\* messages, through every engine call, login and logout; a step of
\* clear_session_history(s) removes the entry of s and nothing else, and
\* changes nothing when s has no entry.
C31_HistoryKeptUntilCleared ==
    [][IF ret'.op = "clear_session_history"
       THEN /\ DOMAIN session_store' = DOMAIN session_store \ {ret'.arg}
            /\ \A k \in DOMAIN session_store' : session_store'[k] = session_store[k]
            /\ ret'.arg \notin DOMAIN session_store => session_store' = session_store
       ELSE \A k \in DOMAIN session_store :
               /\ k \in DOMAIN session_store'
               /\ IsPrefix(session_store[k], session_store'[k])]_vars

\* an entry with messages was cleared while another entry with messages
\* stayed
C31_Witness ==
    /\ ret.op = "clear_session_history"
    /\ ret.ok
    /\ \E k \in DOMAIN session_store : session_store[k] # << >>

----------------------------------------------------------------------------
(* The prompts of the page                                                  *)

\* the messages of M whose content is the exam-type prompt
ExamPromptsIn(M) == {i \in 1..Len(M) : M[i].content = ExamPrompt}

\* C32: through any reruns of the page the exam-type prompt is in the
\* message list at most once, and a step adds it only when no message had
\* exactly that content.
C32_ExamPromptOnce ==
    [][/\ Cardinality(ExamPromptsIn(messages')) <= 1
       /\ Cardinality(ExamPromptsIn(messages')) > Cardinality(ExamPromptsIn(messages))
             => ~Said(messages, ExamPrompt)]_vars

\* the page was rerun after a rejected exam name: the prompt is there once
C32_Witness ==
    /\ ret.op = "rerun"
    /\ user_info.exam_type = ""
    /\ Len(messages) >= 3
    /\ Cardinality(ExamPromptsIn(messages)) = 1

----------------------------------------------------------------------------
(* The phases of the profile collection                                     *)

\* the phases that hold in U
Phases(U) ==
    {p \in {"awaiting_subjects", "awaiting_marks", "profile_complete"} :
        \/ p = "awaiting_subjects" /\ U.awaiting_subjects
        \/ p = "awaiting_marks" /\ U.awaiting_marks
        \/ p = "profile_complete" /\ U.profile_complete}

\* C33: once the exam type is accepted exactly one of awaiting_subjects,
\* awaiting_marks and profile_complete holds, and profile_complete falls
\* only when handle_logout clears the page's state.
C33_ExactlyOnePhase ==
    [][/\ user_info'.exam_type # "" => Cardinality(Phases(user_info')) = 1
       /\ (user_info.profile_complete /\ ~user_info'.profile_complete)
             => ret'.op = "handle_logout"]_vars

\* a question was put to the engine with the profile complete and the
\* other two phases over
C33_Witness ==
    /\ ret.op = "get_exam_buddy_response"
    /\ Phases(user_info) = {"profile_complete"}
    /\ user_info.subject_marks # << >>

----------------------------------------------------------------------------
(* The marks of the profile collection                                      *)

\* while marks are awaited: the index is within the pending subjects, and
\* the marks held are those of the subjects before the index
MarksInOrder(U) ==
    U.awaiting_marks =>
        /\ U.pending_subjects # << >>
        /\ 0 <= U.current_subject_index
        /\ U.current_subject_index < Len(U.pending_subjects)
        /\ DOMAIN U.subject_marks =
              {U.pending_subjects[i] : i \in 1..U.current_subject_index}

\* the step is process_user_input on a number in range while marks are
\* awaited
MarkAccepted ==
    /\ ret'.op = "process_user_input"
    /\ user_info.awaiting_marks
    /\ FloatOf[ret'.arg].ok
    /\ InRange(FloatOf[ret'.arg])

\* the mark typed is held under the subject the index was at
MarkStored ==
    LET subject == user_info.pending_subjects[user_info.current_subject_index + 1] IN
    /\ subject \in DOMAIN user_info'.subject_marks
    /\ user_info'.subject_marks[subject] = FloatValue(FloatOf[ret'.arg])

\* C34 (as stated; refuted): while marks are awaited the index is within
\* the pending subjects and the marks held are those of the subjects before
\* it; each accepted mark is stored under the subject at the index and
\* advances the index by exactly one.
C34_MarksAdvanceByOne ==
    [][/\ MarksInOrder(user_info')
       /\ MarkAccepted =>
             /\ MarkStored
             /\ user_info'.current_subject_index =
                   user_info.current_subject_index + 1]_vars

\* C34 (amended): as above, except that the mark accepted for the last
\* pending subject does not advance the index: it ends the phase, the index
\* is removed and profile_complete is set.
C34_MarksAdvanceOrComplete ==
    [][/\ MarksInOrder(user_info')
       /\ MarkAccepted =>
             /\ MarkStored
             /\ IF user_info.current_subject_index + 1 < Len(user_info.pending_subjects)
                THEN /\ user_info'.awaiting_marks
                     /\ user_info'.current_subject_index =
                           user_info.current_subject_index + 1
                ELSE /\ ~user_info'.awaiting_marks
                     /\ user_info'.current_subject_index = Absent
                     /\ user_info'.profile_complete]_vars

\* the first of two marks was accepted and the second is awaited
C34_Witness ==
    /\ user_info.awaiting_marks
    /\ user_info.current_subject_index = 1
    /\ Len(user_info.pending_subjects) = 2
    /\ DOMAIN user_info.subject_marks = {user_info.pending_subjects[1]}

\* The branches of process_user_input after the three collection steps: the
\* comparison of previous marks and the case "no previous marks".
TrailingBranch(U) ==
    /\ U.exam_type # ""
    /\ ~U.awaiting_subjects
    /\ ~U.awaiting_marks

\* C35: every call of process_user_input made while profile_complete is
\* false appends exactly two messages, the user's input followed by one
\* assistant reply, and returns False; the trailing branches are never
\* reached.
C35_TwoMessagesPerInput ==
    [][ret'.op = "process_user_input" =>
          LET M0 == WithPrompt(user_info, messages)
              n == Len(M0)
          IN
          /\ ~user_info.profile_complete
          /\ ~TrailingBranch(user_info)
          /\ Len(messages') = n + 2
          /\ SubSeq(messages', 1, n) = M0
          /\ messages'[n + 1] = Message("user", ret'.arg)
          /\ messages'[n + 2].role = "assistant"
          /\ messages'[n + 2].content # ""
          /\ ~ret'.ok]_vars

\* a mark was typed in the marks phase and answered
C35_Witness ==
    /\ ret.op = "process_user_input"
    /\ ~ret.ok
    /\ user_info.subject_marks # << >>
    /\ Len(messages) >= 6
    /\ messages[Len(messages)].role = "assistant"
    /\ messages[Len(messages) - 1] = Message("user", ret.arg)

\* The number of answers accepted so far
Accepted(U) ==
    IF U.exam_type = "" THEN 0
    ELSE IF U.awaiting_subjects THEN 1
    ELSE IF U.awaiting_marks THEN 2 + U.current_subject_index
    ELSE 2 + Len(U.subjects)

\* C36: provided the student eventually gives a valid answer at each step,
\* the profile flow terminates: every valid answer is accepted and counts
\* one, an invalid one changes nothing, and after one exam, one list of n
\* subjects and n marks profile_complete is true.
C36_FlowTerminates ==
    /\ [][ret'.op = "process_user_input" =>
             /\ IF ValidAnswer(user_info, ret'.arg)
                THEN Accepted(user_info') = Accepted(user_info) + 1
                ELSE user_info' = user_info
             /\ user_info'.profile_complete <=>
                   /\ Accepted(user_info') = 2 + Len(user_info'.subjects)
                   /\ Len(user_info'.subjects) > 0
                   /\ Len(user_info'.subjects) =
                         Cardinality(DOMAIN user_info'.subject_marks)]_vars
    /\ (ui.is_authenticated ~> user_info.profile_complete)

\* the flow ended after invalid answers had been typed on the way
C36_Witness ==
    /\ user_info.profile_complete
    /\ Len(user_info.subjects) = 2
    /\ Len(messages) > 2 * (2 + Len(user_info.subjects)) + 1
    /\ \E i \in DOMAIN messages : messages[i].content = MarksRePrompt

\* no stored conversation differs between S and T, and a document that T
\* has more starts with none
SameConversations(S, T) ==
    \A d \in DOMAIN T :
        T[d].conversation = IF d \in DOMAIN S THEN S[d].conversation ELSE << >>

\* C37: is_authenticated is true only if session_id and student_id are set;
\* they are set only by a login that returned a session; a failed login
\* leaves the three of them and the message list unchanged; while
\* is_authenticated is false no message is saved and no engine call is made.
C37_AuthenticatedOnlyByLogin ==
    /\ [](ui.is_authenticated => ui.session_id # NoId /\ ui.student_id # NoId)
    /\ [][/\ IF ui' # ui /\ (ui'.session_id # NoId \/ ui'.student_id # NoId)
              THEN /\ ret'.op = "show_login" /\ ret'.ok
                   /\ ui'.student_id = ret'.arg
                   /\ ui'.session_id \in DOMAIN sessions'
                   /\ ui'.is_authenticated
              ELSE TRUE
           /\ IF ret'.op = "show_login" /\ ~ret'.ok
              THEN /\ ui' = ui
                   /\ messages' = messages
                   /\ sessions' = sessions
              ELSE TRUE
           /\ IF ~ui.is_authenticated
              THEN /\ SameConversations(sessions, sessions')
                   /\ llm_calls' = llm_calls
                   /\ session_store' = session_store
              ELSE TRUE]_vars

\* a login has failed after an earlier one had succeeded and a question had
\* been answered
C37_Witness ==
    /\ ret.op = "show_login"
    /\ ~ret.ok
    /\ ~ui.is_authenticated
    /\ llm_calls > 0
    /\ \E d \in DOMAIN sessions : Len(sessions[d].conversation) > 0

\* the records that differ between S and T, those T has more included
ChangedRecords(S, T) ==
    {d \in DOMAIN T : d \notin DOMAIN S \/ T[d] # S[d]}

\* C38: a save_message call made while authenticated as student S changes
\* the conversation of exactly one session record, the one linked to S, by
\* the message, and leaves every other record unchanged; with no session
\* identifier it writes nothing and returns False.
C38_SaveChangesOwnRecordOnly ==
    \A role \in Roles, content \in Contents :
        \A r \in SaveMessageOutcomes(sessions, nextOid, role, content) :
            IF ui.session_id = NoId
            THEN ~r.ok /\ r.sessions = sessions
            ELSE ui.is_authenticated =>
                 /\ r.ok
                 /\ DOMAIN sessions \subseteq DOMAIN r.sessions
                 /\ \E d \in DOMAIN r.sessions :
                        /\ ChangedRecords(sessions, r.sessions) = {d}
                        /\ r.sessions[d].student_id = OidRef(ui.student_id)
                        /\ r.sessions[d].conversation =
                              Trimmed(IF d \in DOMAIN sessions
                                      THEN sessions[d].conversation ELSE << >>,
                                      Message(role, content))

\* two students have a record each, with a conversation stored in both, and
\* one of them is logged in
C38_Witness ==
    /\ ui.is_authenticated
    /\ \E d \in DOMAIN sessions :
          /\ sessions[d].student_id = OidRef(ui.student_id)
          /\ Len(sessions[d].conversation) > 0
    /\ \E d \in DOMAIN sessions : sessions[d].student_id # OidRef(ui.student_id)

\* C39: handle_logout with a non-empty stored conversation sets the
\* session's context to the string the summarizer returned, its fixed
\* fallback included, overwriting any earlier context; with an empty or
\* missing conversation it leaves the stored context unchanged; in both
\* cases the stored conversations are unchanged.
C39_LogoutStoresSummary ==
    [][ret'.op = "handle_logout" =>
          LET found == MatchingSession(sessions) IN
          /\ \A d \in Ids : /\ d \in DOMAIN sessions'
                             /\ sessions'[d].conversation = sessions[d].conversation
          /\ \A d \in DOMAIN sessions' \ Ids : sessions'[d].conversation = << >>
          /\ IF found # {} /\ \A d \in found : Len(sessions[d].conversation) > 0
             THEN /\ ret'.ok
                  /\ saved'.context \in Summaries
                  /\ \A d \in found : /\ saved'.id = d
                                       /\ sessions'[d].context = saved'.context
             ELSE /\ saved' = saved
                  /\ \A d \in Ids : sessions'[d].context = sessions[d].context
                  /\ DOMAIN sessions' = Ids]_vars

\* a logout has stored the summarizer's fallback as the context of a record
\* with a conversation
C39_Witness ==
    /\ ret.op = "handle_logout" /\ ret.ok
    /\ saved.id \in Ids
    /\ sessions[saved.id].context =
          "Previous conversation history is available but could not be summarized."
    /\ Len(sessions[saved.id].conversation) > 0

\* the records of student s
RecordsLinkedTo(S, s) == {d \in DOMAIN S : S[d].student_id = OidRef(s)}

\* C40: logout clears the UI state, and the next login of the student starts
\* the profile flow again at the exam-type prompt with profile_complete
\* false, while the record the login reuses keeps its conversation and
\* context.
C40_LoginStartsProfileAgain ==
    [][/\ ret'.op = "handle_logout" =>
             /\ ui' = InitialUi
             /\ user_info' = EmptyUserInfo
             /\ messages' = << >>
       /\ (ret'.op = "show_login" /\ ret'.ok) =>
             /\ ~user_info'.profile_complete
             /\ user_info'.exam_type = ""
             /\ WithPrompt(user_info', messages') =
                   Append(messages', Message("assistant", ExamPrompt))
             /\ ProcessUserInput(user_info', WithPrompt(user_info', messages'),
                                 "xyz").messages[Len(messages') + 3].content = ExamRePrompt
             /\ \A d \in RecordsLinkedTo(sessions, ret'.arg) :
                   /\ ui'.session_id = d
                   /\ sessions'[d].conversation = sessions[d].conversation
                   /\ sessions'[d].context = sessions[d].context]_vars

\* the student is logged in again after a logout that stored a summary, on
\* the record that holds the earlier conversation, and is asked for the exam
C40_Witness ==
    /\ ret.op = "show_login" /\ ret.ok
    /\ ui.session_id \in Ids
    /\ Len(sessions[ui.session_id].conversation) > 0
    /\ sessions[ui.session_id].context # ""
    /\ ~user_info.profile_complete

====
